---- MODULE Spec2Model ----
(***************************************************************************)
(* Model of the document RAG system of doc-rag-system/:                    *)
(*   doc_retriever.py  DocumentRetriever (hybrid retrieval)                *)
(*   doc_indexer.py    DocumentIndexer   (graph build, chunking, indexing) *)
(* Each specification below fixes the variables of the other components to *)
(* an idle value and runs one component.                                   *)
(***************************************************************************)
EXTENDS Integers, Sequences, FiniteSets, TLC

(***************************************************************************)
(* Bounds of the model.                                                    *)
(***************************************************************************)
MaxTopK == 2
MaxHops == 3
MaxChunksPerDoc == 4
MaxList == 2
MaxTextLen == 6
MaxChunkSize == 5
MaxWindows == 7
MaxLinks == 2
MaxSections == 12
MaxParts == 12
MaxStaged == 4
MaxBatch == 3
MaxNameLen == 4
MaxRuns == 3

\* Document paths.  "E" is never a document of the corpus: a link to it is a
\* link to a file that is no markdown document.
Paths == {"A", "B", "C", "D", "E"}

(***************************************************************************)
(* Scores.  A Python float is modelled as an exact rational <<num, den>>   *)
(* with den > 0; comparisons cross-multiply.  The rational stands for the  *)
(* float the code computes only where float rounding cannot change the     *)
(* outcome of a comparison; Distances below is chosen accordingly.         *)
(***************************************************************************)
RLess(a, b) == a[1] * b[2] < b[1] * a[2]
REq(a, b) == a[1] * b[2] = b[1] * a[2]
RLeq(a, b) == a[1] * b[2] <= b[1] * a[2]

\* doc_retriever.py:143   score = 1.0 - distance
Similarity(distance) == <<distance[2] - distance[1], distance[2]>>

\* doc_retriever.py:209   score = 1.0 / (hop_count + 1)
HopScoreMutant(hop_count) == <<1, hop_count>>
HopScore(hop_count) == <<1, hop_count + 1>>

\* doc_retriever.py:246   doc.score = doc.score * 0.8
PenaltyNum == 4
PenaltyDen == 5
Penalise(score) == <<score[1] * PenaltyNum, score[2] * PenaltyDen>>

\* doc_retriever.py:203   limit=3
ChunkLimit == 3

\* doc_retriever.py:105   max_results=top_k * 2
ResultsFactor == 2

(***************************************************************************)
(* Sequence helpers.                                                       *)
(***************************************************************************)
Range(s) == {s[i] : i \in 1..Len(s)}
Take(s, n) == SubSeq(s, 1, IF n < Len(s) THEN n ELSE Len(s))
\* All orders in which the elements of a finite set can be iterated.
Orderings(S) ==
  {s \in [1..Cardinality(S) -> S] : \A i, j \in 1..Cardinality(S) : i # j => s[i] # s[j]}
SeqsUpTo(S, n) == UNION {[1..k -> S] : k \in 0..n}

(***************************************************************************)
(* The link graph.  doc_indexer.py _build_document_graph: one node per     *)
(* document; outgoing_links is what _extract_links returns for the         *)
(* document (every target inside the corpus root, a document or not);      *)
(* incoming_links is filled only for targets that are nodes.               *)
(***************************************************************************)
BuildDocumentGraphMutant(docs, links) ==
  [d \in docs |->
     [outgoing_links |-> links[d],
      incoming_links |-> links[d] \cap docs]]
BuildDocumentGraph(docs, links) ==
  [d \in docs |->
     [outgoing_links |-> links[d],
      incoming_links |-> {s \in docs : d \in links[s]}]]

\* The links of a corpus given as a set of <<source, target>> pairs.
LinksOf(docs, edges) == [d \in docs |-> {e[2] : e \in {x \in edges : x[1] = d}}]

(***************************************************************************)
(* The vector index (ChromaDB collection): chunk id -> entry.              *)
(* doc_indexer.py:283  chunk_id = f"{file_path}__chunk_{i}_{j}"; every     *)
(* chunk's metadata carries file_path (doc_indexer.py:184,292).  An entry  *)
(* holds the content its chunk was made from and `at`, its place among the *)
(* entries of its document in the order they were added: the collection    *)
(* returns entries in the order of their insertion, and a filter on        *)
(* file_path shows that order only among the chunks of one document.       *)
(***************************************************************************)
ChunkId(file_path, i, j) == <<file_path, i, j>>
FilePathOf(chunk_id) == chunk_id[1]

\* _chunk_document, lines 275-283: the chunks of a document are listed by
\* section i, then by part j
ChunkBefore(a, b) == a[2] < b[2] \/ (a[2] = b[2] /\ a[3] < b[3])

\* The ids S of a collection, earliest added first.
RECURSIVE InStorageOrder(_, _)
InStorageOrder(coll, S) ==
  IF S = {} THEN <<>>
  ELSE LET first == CHOOSE c \in S : \A o \in S \ {c} : coll[c].at < coll[o].at
       IN  <<first>> \o InStorageOrder(coll, S \ {first})

\* collection.get(where={"file_path": doc_path}, limit=n): the first n chunks
\* of the document in storage order.
CollectionGet(coll, doc_path, limit) ==
  Take(InStorageOrder(coll, {c \in DOMAIN coll : FilePathOf(c) = doc_path}), limit)

\* _add_to_vectordb, doc_indexer.py:362-369: collection.add keeps the entry
\* of an id the collection already holds and appends the others in the order
\* of the list, which holds a document's chunks in the order of
\* _chunk_document.  `documents` is chunk id -> content.
CollectionAdd(coll, documents) ==
  LET added == DOMAIN documents \ DOMAIN coll
      Held(p) == Cardinality({c \in DOMAIN coll : FilePathOf(c) = p})
      Rank(id) == Cardinality({c \in added : FilePathOf(c) = FilePathOf(id)
                                              /\ ChunkBefore(c, id)})
  IN  [id \in DOMAIN coll \cup DOMAIN documents |->
         IF id \in DOMAIN coll THEN coll[id]
         ELSE [content |-> documents[id], at |-> Held(FilePathOf(id)) + Rank(id)]]

\* The collection after one index run that added the chunks `ids`.
IndexedOnce(ids) == CollectionAdd(<<>>, [c \in ids |-> "v1"])

(***************************************************************************)
(* State.                                                                  *)
(***************************************************************************)
VARIABLES
  \* DocumentRetriever
  doc_graph,        \* self.doc_graph: path -> node
  collection,       \* the ChromaDB collection "documents": chunk id -> content it was made from
  top_k, use_graph, max_hops,   \* arguments of retrieve
  semantic_results, \* list of RetrievedDoc
  seed_docs, max_results,       \* arguments of _graph_traversal
  visited, to_visit, related_docs,
  where_queries,    \* the document paths collection.get was asked for
  graph_results, combined, result,
  pc,               \* position in retrieve
  \* DocumentIndexer: chunking of one section
  chunk_size, chunk_overlap,    \* self.chunk_size, self.chunk_overlap
  text,             \* the section body handed to _chunk_document
  start,            \* local of _split_text
  windows,          \* the <<start, end>> of every chunk appended so far
  chunks,           \* local of _split_text: the chunk texts
  spc,              \* position in __init__ / _chunk_document / _split_text
  \* DocumentIndexer: index runs
  corpus,           \* the markdown files under docs_dir: path -> content
  hash_file,        \* db_path/content_hashes.json
  graph_file,       \* db_path/doc_graph.json
  indexer,          \* the DocumentIndexer objects: their self.content_hashes
  runs,             \* per DocumentIndexer object: its index_documents call in progress
  run_count,        \* the index_documents calls made so far
  collection_exists,\* the ChromaDB client at db_path has the collection "documents"
  last_run,         \* what the index_documents call that has just ended did
  ok_run,           \* history: the last run if it completed and the corpus is as it left it
  aborted_run,      \* history: the last run if an embedding call ended it and the corpus is as it left it
  \* DocumentIndexer: graph build, save and load
  md_links,         \* the markdown files under docs_dir: relative path -> the links in the file
  cwd,              \* the working directory of the process
  built_graph,      \* self.doc_graph of the indexer that built the graph
  graph_json,       \* db_path/doc_graph.json as _save_graph writes it
  loaded_graph,     \* self.doc_graph of the indexer that loaded the graph
  gpc,              \* position in build / save / load
  \* a second retrieve call on the same DocumentRetriever
  parked,           \* the locals of the call that is not running
  \* DocumentIndexer: the chunk ids of a corpus build
  id_corpus,        \* document path -> the number of parts of each of its sections
  first_ids,        \* document path -> the ids _chunk_document gave its chunks
  second_ids,       \* the same for a later run over documents of the same content
  ipc,              \* position: "new", "chunked", "rechunked"
  \* DocumentIndexer: _embed_documents
  staged_docs,      \* the list `documents`: records of id, content and embedding
  batch_size,       \* the parameter batch_size
  batch_start,      \* the loop variable i
  requests,         \* the `input` of every embeddings call made so far
  epc,              \* position: "embed", "done"
  \* MRParser
  filepath,         \* the argument, a string
  language,         \* what get_file_language returned
  analyze,          \* what _should_analyze returned
  lpc               \* position: "new", "done"

retrVars == <<doc_graph, top_k, use_graph, max_hops, semantic_results,
              seed_docs, max_results, visited, to_visit, related_docs,
              where_queries, graph_results, combined, result, pc>>
splitVars == <<chunk_size, chunk_overlap, text, start, windows, chunks, spc>>
indexVars == <<corpus, hash_file, graph_file, indexer, runs, run_count,
               collection_exists, last_run, ok_run, aborted_run>>

graphVars == <<md_links, cwd, built_graph, graph_json, loaded_graph, gpc>>

callVars == <<parked>>
idVars == <<id_corpus, first_ids, second_ids, ipc>>
embedVars == <<staged_docs, batch_size, batch_start, requests, epc>>
langVars == <<filepath, language, analyze, lpc>>

vars == <<retrVars, collection, splitVars, indexVars, graphVars, callVars,
          idVars, embedVars, langVars>>

\* The variables a component leaves alone.
RetrieverOnly == UNCHANGED <<splitVars, indexVars, graphVars, callVars, idVars, embedVars, langVars>>
ChunkerOnly == UNCHANGED <<retrVars, collection, indexVars, graphVars, callVars, idVars, embedVars, langVars>>
IndexerOnly == UNCHANGED <<retrVars, splitVars, graphVars, callVars, idVars, embedVars, langVars>>
GraphOnly == UNCHANGED <<retrVars, collection, splitVars, indexVars, callVars, idVars, embedVars, langVars>>

\* The idle values of a component that a specification does not run.
NoRun == [ran |-> FALSE]
NoOkRun == [ok |-> FALSE, by |-> "", fresh |-> {}]
NoAbortedRun == [aborted |-> FALSE, by |-> "", fresh |-> {}, staged |-> {}]
RetrieverIdle ==
  /\ doc_graph = <<>>
  /\ top_k = 1
  /\ use_graph = FALSE
  /\ max_hops = 0
  /\ semantic_results = <<>>
  /\ seed_docs = <<>>
  /\ max_results = 0
  /\ visited = {}
  /\ to_visit = <<>>
  /\ related_docs = <<>>
  /\ where_queries = <<>>
  /\ graph_results = <<>>
  /\ combined = <<>>
  /\ result = <<>>
  /\ pc = "idle"
ChunkerIdle ==
  /\ chunk_size = 1
  /\ chunk_overlap = 0
  /\ text = <<>>
  /\ start = 0
  /\ windows = <<>>
  /\ chunks = <<>>
  /\ spc = "idle"
IndexerIdle ==
  /\ corpus = <<>>
  /\ hash_file = <<>>
  /\ graph_file = <<>>
  /\ indexer = <<>>
  /\ runs = <<>>
  /\ run_count = 0
  /\ collection_exists = TRUE
  /\ last_run = NoRun
  /\ ok_run = NoOkRun
  /\ aborted_run = NoAbortedRun
NoCall == [pc |-> "idle"]
CallIdle == parked = NoCall
IdIdle ==
  /\ id_corpus = <<>>
  /\ first_ids = <<>>
  /\ second_ids = <<>>
  /\ ipc = "idle"
EmbedIdle ==
  /\ staged_docs = <<>>
  /\ batch_size = 1
  /\ batch_start = 0
  /\ requests = <<>>
  /\ epc = "idle"
LangIdle ==
  /\ filepath = <<>>
  /\ language = "unset"
  /\ analyze = FALSE
  /\ lpc = "idle"
PureIdle == IdIdle /\ EmbedIdle /\ LangIdle
GraphIdle ==
  /\ md_links = <<>>
  /\ cwd = <<>>
  /\ built_graph = <<>>
  /\ graph_json = <<>>
  /\ loaded_graph = <<>>
  /\ gpc = "idle"

(***************************************************************************)
(* _graph_traversal, doc_retriever.py:150-221.                             *)
(***************************************************************************)
\* lines 185, 192: if linked_doc not in visited
NotVisitedMutant(linked_doc, seen) == TRUE
NotVisited(linked_doc, seen) == linked_doc \notin seen

\* lines 167-169
TraversalStartMutant(seeds) ==
  [visited |-> Range(seeds),
   to_visit |-> [i \in 1..Len(seeds) |-> <<seeds[i], 0>>],
   related_docs |-> [i \in 1..Len(seeds) |-> <<seeds[i], 0>>]]
TraversalStartUnmarked(seeds) ==
  [visited |-> {},
   to_visit |-> [i \in 1..Len(seeds) |-> <<seeds[i], 0>>],
   related_docs |-> <<>>]
TraversalStart(seeds) ==
  [visited |-> Range(seeds),
   to_visit |-> [i \in 1..Len(seeds) |-> <<seeds[i], 0>>],
   related_docs |-> <<>>]

\* lines 184-188 and 191-195 for one list of links, iterated in the order
\* `order`: every link not yet visited is marked, queued and recorded.
RECURSIVE FollowLinks(_, _, _)
FollowLinks(order, hop_count, st) ==
  IF order = <<>> THEN st
  ELSE LET linked_doc == Head(order)
           next == IF NotVisited(linked_doc, st.visited)
                   THEN [visited |-> st.visited \cup {linked_doc},
                         to_visit |-> Append(st.to_visit, <<linked_doc, hop_count + 1>>),
                         related_docs |-> Append(st.related_docs, <<linked_doc, hop_count + 1>>)]
                   ELSE st
       IN  FollowLinks(Tail(order), hop_count, next)

\* line 171: while to_visit and len(related_docs) < max_results
LoopRuns == to_visit # <<>> /\ Len(related_docs) < max_results

\* lines 174-179: the two tests that drop a popped entry (continue): it is
\* at the hop limit, or it is no key of the loaded graph
SkipsEntryMutant(current_doc, hop_count, graph, hops) == hop_count >= hops
SkipsEntry(current_doc, hop_count, graph, hops) ==
  hop_count >= hops \/ current_doc \notin DOMAIN graph

\* lines 172-179: the popped entry is dropped (continue)
TraverseSkip ==
  /\ pc = "traverse"
  /\ LoopRuns
  /\ SkipsEntry(Head(to_visit)[1], Head(to_visit)[2], doc_graph, max_hops)
  /\ to_visit' = Tail(to_visit)
  /\ RetrieverOnly
  /\ UNCHANGED <<doc_graph, collection, top_k, use_graph, max_hops, semantic_results,
                 seed_docs, max_results, visited, related_docs, where_queries,
                 graph_results, combined, result, pc>>

\* lines 181-195: the node's link lists are iterated; nothing is assigned to
\* the node or to self.doc_graph
ExpandedGraphMutant(graph, current_doc) ==
  [graph EXCEPT ![current_doc].outgoing_links = {}]
ExpandedGraph(graph, current_doc) == graph

\* lines 172-195: the popped entry was not dropped.  Line 181 reads
\* self.doc_graph[current_doc], which raises KeyError for a path that is no
\* key of the graph: retrieve ends with the exception (pc = "error").
\* Otherwise the node's link lists are followed; they come from list(set)
\* (doc_indexer.py:380-381): any iteration order is possible.
TraverseExpand ==
  /\ pc = "traverse"
  /\ LoopRuns
  /\ LET current_doc == Head(to_visit)[1]
         hop_count == Head(to_visit)[2]
     IN  /\ ~SkipsEntry(current_doc, hop_count, doc_graph, max_hops)
         /\ IF current_doc \in DOMAIN doc_graph
            THEN /\ \E outOrder \in Orderings(doc_graph[current_doc].outgoing_links),
                       inOrder \in Orderings(doc_graph[current_doc].incoming_links) :
                      LET st0 == [visited |-> visited, to_visit |-> Tail(to_visit),
                                  related_docs |-> related_docs]
                          st1 == FollowLinks(outOrder, hop_count, st0)
                          st2 == FollowLinks(inOrder, hop_count, st1)
                      IN  /\ visited' = st2.visited
                          /\ to_visit' = st2.to_visit
                          /\ related_docs' = st2.related_docs
                 /\ doc_graph' = ExpandedGraph(doc_graph, current_doc)
                 /\ UNCHANGED pc
            ELSE /\ pc' = "error"
                 /\ to_visit' = Tail(to_visit)
                 /\ UNCHANGED <<visited, related_docs, doc_graph>>
  /\ RetrieverOnly
  /\ UNCHANGED <<collection, top_k, use_graph, max_hops, semantic_results,
                 seed_docs, max_results, where_queries, graph_results, combined,
                 result>>

\* line 199: related_docs[:max_results]
DocsToFetchMutant(related, limit) == related
DocsToFetch(related, limit) == Take(related, limit)

\* lines 206-219: the RetrievedDoc list of one document's chunks
GraphDocs(found, hop_count) ==
  [i \in 1..Len(found) |->
     [chunk_id |-> found[i], file_path |-> FilePathOf(found[i]),
      score |-> HopScore(hop_count), retrieval_method |-> "graph"]]

\* lines 199-219 (one pass of the for loop): the while loop has ended; the
\* next related document's chunks are read with one collection.get, from the
\* vector index as it is at that moment, and appended to docs.  The gets
\* made so far are where_queries, the docs list is graph_results.
FetchChunks ==
  /\ pc = "traverse"
  /\ ~LoopRuns
  /\ LET fetch == DocsToFetch(related_docs, max_results)
     IN  /\ Len(where_queries) < Len(fetch)
         /\ LET entry == fetch[Len(where_queries) + 1]
            IN  /\ where_queries' = Append(where_queries, entry[1])
                /\ graph_results' =
                     graph_results \o GraphDocs(CollectionGet(collection, entry[1], ChunkLimit),
                                                entry[2])
  /\ RetrieverOnly
  /\ UNCHANGED <<doc_graph, collection, top_k, use_graph, max_hops, semantic_results,
                 seed_docs, max_results, visited, to_visit, related_docs, combined,
                 result, pc>>

\* lines 199 and 221: every related document was fetched, docs is returned
TraversalReturn ==
  /\ pc = "traverse"
  /\ ~LoopRuns
  /\ Len(where_queries) = Len(DocsToFetch(related_docs, max_results))
  /\ pc' = "combine"
  /\ RetrieverOnly
  /\ UNCHANGED <<doc_graph, collection, top_k, use_graph, max_hops, semantic_results,
                 seed_docs, max_results, visited, to_visit, related_docs, where_queries,
                 graph_results, combined, result>>

TraversalNext == TraverseSkip \/ TraverseExpand \/ FetchChunks \/ TraversalReturn

\* lines 198-221 over a vector index no one writes to meanwhile
RECURSIVE FetchAll(_, _)
FetchAll(entries, coll) ==
  IF entries = <<>> THEN <<>>
  ELSE GraphDocs(CollectionGet(coll, Head(entries)[1], ChunkLimit), Head(entries)[2])
         \o FetchAll(Tail(entries), coll)

(***************************************************************************)
(* retrieve, doc_retriever.py:76-148 and 223-268.                          *)
(***************************************************************************)
\* Distances the vector index reports for a query: 0.125 and 0.875, binary
\* fractions, so that the float 1.0 - distance of line 143 is the exact
\* difference (0.875 and 0.125).  The scores lie above and below the score
\* 0.8 / (hop + 1) of every graph result within MaxHops and are equal to
\* none, so the float comparisons of _rerank order them as the rationals do.
Distances == {<<1, 8>>, <<7, 8>>}

\* collection.query(n_results=k), lines 130-133: a ranked list of at most k
\* distinct chunks of the collection, nearest first.
SemanticOutcomes(coll, k) ==
  {s \in SeqsUpTo((DOMAIN coll) \X Distances, k) :
     /\ \A i, j \in 1..Len(s) : i # j => s[i][1] # s[j][1]
     /\ \A i \in 1..(Len(s) - 1) : RLeq(s[i][2], s[i + 1][2])}

\* lines 136-148
SemanticDocs(outcome) ==
  [i \in 1..Len(outcome) |->
     [chunk_id |-> outcome[i][1], file_path |-> FilePathOf(outcome[i][1]),
      score |-> Similarity(outcome[i][2]), retrieval_method |-> "semantic"]]

\* line 103: [r.file_path for r in semantic_results]
FilePaths(docs) == [i \in 1..Len(docs) |-> docs[i].file_path]

\* lines 244-247: a graph result entering the combined list
AsHybrid(doc) ==
  [doc EXCEPT !.retrieval_method = "hybrid", !.score = Penalise(doc.score)]

\* lines 229-230: nothing seen, nothing combined; `walked` is the list the
\* loop has gone through, holding its objects as the loop left them
NothingCombined == [seen_chunks |-> {}, combined |-> <<>>, walked |-> <<>>]

\* lines 233-237 (semantic) and 240-247 (graph): append the docs whose
\* chunk id was not seen yet.  Lines 245-246 assign to the fields of the
\* graph list's own object and line 247 appends that object, so the entry of
\* the graph list changes with it; a doc whose id was seen is left as it is.
RECURSIVE AddUnseen(_, _, _)
AddUnseen(docs, acc, isGraph) ==
  IF docs = <<>> THEN acc
  ELSE LET doc == Head(docs)
           unseen == doc.chunk_id \notin acc.seen_chunks
           object == IF unseen /\ isGraph THEN AsHybrid(doc) ELSE doc
           next == [seen_chunks |-> IF unseen THEN acc.seen_chunks \cup {doc.chunk_id}
                                    ELSE acc.seen_chunks,
                    combined |-> IF unseen THEN Append(acc.combined, object)
                                 ELSE acc.combined,
                    walked |-> Append(acc.walked, object)]
       IN  AddUnseen(Tail(docs), next, isGraph)

\* A combine in which a graph result replaces the semantic entry of its id.
RECURSIVE OverwriteWithGraph(_, _)
OverwriteWithGraph(sem, graph) ==
  IF graph = <<>> THEN sem
  ELSE LET g == Head(graph)
           hit == {i \in 1..Len(sem) : sem[i].chunk_id = g.chunk_id}
       IN  OverwriteWithGraph(
             IF hit = {} THEN Append(sem, AsHybrid(g))
             ELSE [i \in 1..Len(sem) |-> IF i \in hit THEN AsHybrid(g) ELSE sem[i]],
             Tail(graph))
CombineResultsMutant(semantic, graph) ==
  OverwriteWithGraph(AddUnseen(semantic, NothingCombined, FALSE).combined, graph)

\* _combine_results, lines 223-249
CombineResults(semantic, graph) ==
  AddUnseen(graph, AddUnseen(semantic, NothingCombined, FALSE), TRUE).combined

\* The caller's graph list after _combine_results, lines 240-247: the entries
\* that were appended are now tagged 'hybrid' and carry the penalised score.
GraphAfterCombine(semantic, graph) ==
  AddUnseen(graph,
            [AddUnseen(semantic, NothingCombined, FALSE) EXCEPT !.walked = <<>>],
            TRUE).walked

\* sorted(docs, key=score, reverse=True), line 267: stable, so a doc goes
\* behind every doc whose score is at least its own.
InsertByScore(sorted, doc) ==
  LET n == Cardinality({i \in 1..Len(sorted) : RLeq(doc.score, sorted[i].score)})
  IN  SubSeq(sorted, 1, n) \o <<doc>> \o SubSeq(sorted, n + 1, Len(sorted))

RECURSIVE SortByScore(_, _)
SortByScore(docs, sorted) ==
  IF docs = <<>> THEN sorted
  ELSE SortByScore(Tail(docs), InsertByScore(sorted, Head(docs)))

\* _rerank, lines 251-268
RerankMutant(docs, k) == Take(docs, k)
Rerank(docs, k) == Take(SortByScore(docs, <<>>), k)

\* lines 96-99: retrieve with use_graph = False returns the semantic results
SemanticSearchOnly ==
  /\ pc = "semantic"
  /\ ~use_graph
  /\ \E outcome \in SemanticOutcomes(collection, top_k) :
       /\ semantic_results' = SemanticDocs(outcome)
       /\ result' = SemanticDocs(outcome)
  /\ pc' = "done"
  /\ RetrieverOnly
  /\ UNCHANGED <<doc_graph, collection, top_k, use_graph, max_hops, seed_docs,
                 max_results, visited, to_visit, related_docs, where_queries,
                 graph_results, combined>>

\* lines 96 and 102-106, 167-169: semantic search, then the traversal starts
\* from the file paths of the semantic results
SemanticSearch ==
  /\ pc = "semantic"
  /\ use_graph
  /\ \E outcome \in SemanticOutcomes(collection, top_k) :
       LET docs == SemanticDocs(outcome)
           begin == TraversalStart(FilePaths(docs))
       IN  /\ semantic_results' = docs
           /\ seed_docs' = FilePaths(docs)
           /\ visited' = begin.visited
           /\ to_visit' = begin.to_visit
           /\ related_docs' = begin.related_docs
  /\ max_results' = top_k * ResultsFactor
  /\ pc' = "traverse"
  /\ RetrieverOnly
  /\ UNCHANGED <<doc_graph, collection, top_k, use_graph, max_hops, where_queries,
                 graph_results, combined, result>>

\* line 109
Combine ==
  /\ pc = "combine"
  /\ combined' = CombineResults(semantic_results, graph_results)
  /\ graph_results' = GraphAfterCombine(semantic_results, graph_results)
  /\ pc' = "rerank"
  /\ RetrieverOnly
  /\ UNCHANGED <<doc_graph, collection, top_k, use_graph, max_hops, semantic_results,
                 seed_docs, max_results, visited, to_visit, related_docs,
                 where_queries, result>>

\* lines 112-114
RerankAndReturn ==
  /\ pc = "rerank"
  /\ result' = Rerank(combined, top_k)
  /\ pc' = "done"
  /\ RetrieverOnly
  /\ UNCHANGED <<doc_graph, collection, top_k, use_graph, max_hops, semantic_results,
                 seed_docs, max_results, visited, to_visit, related_docs,
                 where_queries, graph_results, combined>>

RetrieveNext ==
  \/ SemanticSearchOnly
  \/ SemanticSearch
  \/ TraversalNext
  \/ Combine
  \/ RerankAndReturn

(***************************************************************************)
(* SpecRetrieve: retrieve on small corpora, every argument choice and      *)
(* every outcome of the semantic search.                                   *)
(***************************************************************************)
RetrieveDocSets == {{"A", "B", "C"}, {"A", "B", "C", "D"}}
RetrieveEdges == {<<"A", "B">>, <<"B", "C">>, <<"B", "D">>}

\* The vector index after two runs over docs.  The first run found every
\* document with one section, "C" with n - 1 sections of one part each (of
\* one, for n = 1); before the second run "C" was edited so that its first
\* section makes two parts.  collection.add kept the entries of the first
\* run and appended the new part, so "C" has n chunks and, for n > 2, the
\* part C__chunk_0_1 is stored behind C__chunk_1_0.  `unknown` are chunks
\* of a document whose path the loaded graph does not hold
\* (StaleGraphChunks).
IndexedCollection(docs, n, unknown) ==
  LET sections == {ChunkId("C", i, 0) : i \in 1..(n - 2)}
      first_run == {ChunkId(d, 0, 0) : d \in docs} \cup sections \cup unknown
      second_run == IF n > 1
                    THEN {ChunkId("C", 0, 0), ChunkId("C", 0, 1)} \cup sections
                    ELSE {}
  IN  CollectionAdd(IndexedOnce(first_run), [c \in second_run |-> "v2"])

StaleGraphChunks == {ChunkId("E", 0, 0)}

InitRetrieve ==
  /\ GraphIdle
  /\ CallIdle
  /\ PureIdle
  /\ ChunkerIdle
  /\ IndexerIdle
  /\ \E docs \in RetrieveDocSets, edges \in SUBSET RetrieveEdges :
       /\ doc_graph = BuildDocumentGraph(docs, LinksOf(docs, edges))
       /\ \E n \in {1, MaxChunksPerDoc}, unknown \in {{}, StaleGraphChunks} :
            collection = IndexedCollection(docs, n, unknown)
  /\ top_k \in 1..MaxTopK
  /\ use_graph \in BOOLEAN
  /\ max_hops \in 0..MaxHops
  /\ seed_docs = <<>>
  /\ max_results = 0
  /\ semantic_results = <<>>
  /\ visited = {}
  /\ to_visit = <<>>
  /\ related_docs = <<>>
  /\ where_queries = <<>>
  /\ graph_results = <<>>
  /\ combined = <<>>
  /\ result = <<>>
  /\ pc = "semantic"

SpecRetrieve == InitRetrieve /\ [][RetrieveNext]_vars

(***************************************************************************)
(* SpecCombine: _combine_results and _rerank on every pair of lists over a *)
(* small set of chunks.                                                    *)
(***************************************************************************)
CombineChunks == {ChunkId("A", 0, 0), ChunkId("B", 0, 0), ChunkId("B", 1, 0)}

RetrievedDocs(method, scores) ==
  {[chunk_id |-> c, file_path |-> FilePathOf(c), score |-> sc, retrieval_method |-> method] :
     c \in CombineChunks, sc \in scores}

InitCombine ==
  /\ GraphIdle
  /\ CallIdle
  /\ PureIdle
  /\ ChunkerIdle
  /\ IndexerIdle
  /\ doc_graph = BuildDocumentGraph({}, <<>>)
  /\ collection = IndexedOnce(CombineChunks)
  /\ top_k \in 1..MaxTopK
  /\ use_graph = TRUE
  /\ max_hops = 0
  /\ seed_docs = <<>>
  /\ max_results = 0
  /\ semantic_results \in SeqsUpTo(RetrievedDocs("semantic", {Similarity(d) : d \in Distances}), MaxList)
  /\ graph_results \in SeqsUpTo(RetrievedDocs("graph", {HopScore(1), HopScore(2)}), MaxList)
  /\ visited = {}
  /\ to_visit = <<>>
  /\ related_docs = <<>>
  /\ where_queries = <<>>
  /\ combined = <<>>
  /\ result = <<>>
  /\ pc = "combine"

SpecCombine == InitCombine /\ [][Combine \/ RerankAndReturn]_vars

(***************************************************************************)
(* SpecTraverse: _graph_traversal on every graph of a family, every seed   *)
(* list and every max_hops.                                                *)
(***************************************************************************)
TraverseDocs == {"A", "B", "C", "D"}
TraverseEdges == {<<"A", "B">>, <<"B", "C">>, <<"C", "D">>, <<"A", "C">>,
                  <<"D", "A">>, <<"A", "E">>, <<"D", "E">>}
\* A seed is a document of the graph or a path the loaded graph does not hold.
TraverseSeeds == TraverseDocs \cup {"E"}

\* One chunk per section, i sections per document.
UniformCollection(docs, n) == {ChunkId(d, i, 0) : d \in docs, i \in 0..(n - 1)}

InitTraverse ==
  /\ GraphIdle
  /\ CallIdle
  /\ PureIdle
  /\ ChunkerIdle
  /\ IndexerIdle
  /\ \E edges \in SUBSET TraverseEdges :
       doc_graph = BuildDocumentGraph(TraverseDocs, LinksOf(TraverseDocs, edges))
  /\ collection = IndexedOnce(UniformCollection(TraverseDocs, 1))
  /\ top_k \in 1..MaxTopK
  /\ use_graph = TRUE
  /\ max_hops \in 0..MaxHops
  /\ seed_docs \in SeqsUpTo(TraverseSeeds, top_k) \ {<<>>}
  /\ max_results = top_k * ResultsFactor
  /\ semantic_results = <<>>
  /\ visited = TraversalStart(seed_docs).visited
  /\ to_visit = TraversalStart(seed_docs).to_visit
  /\ related_docs = TraversalStart(seed_docs).related_docs
  /\ where_queries = <<>>
  /\ graph_results = <<>>
  /\ combined = <<>>
  /\ result = <<>>
  /\ pc = "traverse"

SpecTraverse == InitTraverse /\ [][TraversalNext]_vars

(***************************************************************************)
(* Shortest paths in the undirected graph whose edges are the union of the *)
(* outgoing and incoming links of every node.                              *)
(***************************************************************************)
LinkNeighbours(graph, S) ==
  S \cup {b \in Paths : \E a \in S :
            \/ a \in DOMAIN graph /\ b \in graph[a].outgoing_links \cup graph[a].incoming_links
            \/ b \in DOMAIN graph /\ a \in graph[b].outgoing_links \cup graph[b].incoming_links}

RECURSIVE WithinHops(_, _, _)
WithinHops(graph, S, k) == IF k = 0 THEN S ELSE WithinHops(graph, LinkNeighbours(graph, S), k - 1)

\* The length of the shortest path from the nearest seed to doc (doc reachable).
ShortestHops(graph, seeds, doc) ==
  CHOOSE k \in 0..Cardinality(Paths) :
    /\ doc \in WithinHops(graph, seeds, k)
    /\ \A m \in 0..(k - 1) : doc \notin WithinHops(graph, seeds, m)

\* C2: every document the traversal produces carries a hop distance h with
\* 1 <= h <= max_hops, and h is the length of the shortest path from the
\* nearest seed in the undirected link graph.
C2_HopIsShortestPath ==
  \A i \in 1..Len(related_docs) :
    /\ 1 <= related_docs[i][2]
    /\ related_docs[i][2] <= max_hops
    /\ related_docs[i][2] = ShortestHops(doc_graph, Range(seed_docs), related_docs[i][1])

\* A path is recorded as newly discovered at most once, a seed never; every
\* queued discovery is the recorded one (same hop distance), the visited set
\* is exactly the seeds and the discoveries, and no path is fetched twice.
RecordedOnce ==
  /\ \A i, j \in 1..Len(related_docs) :
       related_docs[i][1] = related_docs[j][1] => i = j
  /\ \A i \in 1..Len(related_docs) : related_docs[i][1] \notin Range(seed_docs)
  /\ \A i, j \in 1..Len(to_visit) :
       (to_visit[i] = to_visit[j] /\ to_visit[i][2] > 0) => i = j
  /\ \A i \in 1..Len(to_visit) :
       to_visit[i][2] > 0 => to_visit[i] \in Range(related_docs)
  /\ visited = Range(seed_docs) \cup {related_docs[i][1] : i \in 1..Len(related_docs)}
  /\ \A i \in 1..Len(where_queries) : \A j \in 1..Len(where_queries) :
       where_queries[i] = where_queries[j] => i = j

\* Once recorded, a discovery and its hop distance stay as they are.
HopDistanceKept ==
  \A i \in 1..Len(related_docs) :
    Len(related_docs') >= i /\ related_docs'[i] = related_docs[i]

\* C3: during one traversal a path is added to the visited set, to the
\* frontier as a discovery and to the output at most once; a document reached
\* again is not re-queued and its recorded hop distance does not change.
C3_VisitedOnce == []RecordedOnce /\ [][HopDistanceKept]_vars

\* C3 witness: a document is reached a second time, from a later frontier
\* entry, after it was recorded.
C3_Witness ==
  /\ pc = "combine"
  /\ \E i \in 1..Len(related_docs) : \E j \in 1..Len(related_docs) :
       /\ i # j
       /\ related_docs[j][1] \in DOMAIN doc_graph
       /\ related_docs[j][2] < max_hops
       /\ related_docs[i][1] \in doc_graph[related_docs[j][1]].outgoing_links
                                  \cup doc_graph[related_docs[j][1]].incoming_links
       /\ to_visit = <<>>

(***************************************************************************)
(* Claims about _combine_results and retrieve.                             *)
(***************************************************************************)
IdsOf(docs) == {docs[i].chunk_id : i \in 1..Len(docs)}
FirstWithId(docs, id) ==
  docs[CHOOSE i \in 1..Len(docs) :
         docs[i].chunk_id = id /\ \A j \in 1..(i - 1) : docs[j].chunk_id # id]

\* The list `merged` is what the claim says of the semantic list S and the
\* graph list G the combine step was given.
DedupOf(S, G, merged) ==
  /\ \A i, j \in 1..Len(merged) : merged[i].chunk_id = merged[j].chunk_id => i = j
  /\ IdsOf(merged) = IdsOf(S) \cup IdsOf(G)
  /\ \A i \in 1..Len(merged) :
       IF merged[i].chunk_id \in IdsOf(S)
       THEN /\ merged[i].score = FirstWithId(S, merged[i].chunk_id).score
            /\ merged[i].retrieval_method = "semantic"
       ELSE /\ REq(merged[i].score,
                   <<8 * FirstWithId(G, merged[i].chunk_id).score[1],
                     10 * FirstWithId(G, merged[i].chunk_id).score[2]>>)
            /\ merged[i].retrieval_method = "hybrid"
  /\ \A i, j \in 1..Len(merged) :
       (i < j /\ merged[j].chunk_id \in IdsOf(S)) => merged[i].chunk_id \in IdsOf(S)

\* C1: the combined list holds each chunk id of the semantic and the graph
\* list exactly once; an id of the semantic list keeps the score and the tag
\* 'semantic' of its first semantic occurrence, an id only in the graph list
\* has the graph score times 0.8 and the tag 'hybrid', and semantic entries
\* precede graph-only entries.  The lists are the ones the combine step is
\* given: the step changes the graph list's entries.
C1_CombineDedup ==
  [][(pc = "combine" /\ pc' = "rerank")
       => DedupOf(semantic_results, graph_results, combined')]_vars

\* C1 witness: combined lists in which one id is in both lists and another
\* only in the graph list.
C1_Witness ==
  /\ pc = "rerank"
  /\ IdsOf(semantic_results) \cap IdsOf(graph_results) # {}
  /\ IdsOf(graph_results) \ IdsOf(semantic_results) # {}

\* C4: the traversal asks the index for the chunks of at most 2 * top_k
\* distinct documents and gets at most 3 chunks of each.
C4_FetchBounded ==
  /\ Cardinality(Range(where_queries)) <= 2 * top_k
  /\ Len(where_queries) <= 2 * top_k
  /\ \A d \in Paths :
       Cardinality({i \in 1..Len(graph_results) : graph_results[i].file_path = d}) <= 3

\* C4 witness: one expansion discovered more than 2 * top_k documents and a
\* fetched document has more than 3 chunks in the index.
C4_Witness ==
  /\ pc = "combine"
  /\ Len(related_docs) > 2 * top_k
  /\ \E i \in 1..Len(where_queries) :
       Cardinality({c \in DOMAIN collection : FilePathOf(c) = where_queries[i]}) > 3
  /\ \E d \in DOMAIN doc_graph :
       Cardinality((doc_graph[d].outgoing_links \cup doc_graph[d].incoming_links)
                     \ Range(seed_docs)) > 2 * top_k

MinOf(a, b) == IF a < b THEN a ELSE b

\* C5: retrieve returns at most top_k entries in non-increasing score order;
\* with use_graph they are top_k highest-scoring entries of the combined set,
\* without it they are all tagged 'semantic' and no query by path was issued.
C5_RankedTopK ==
  pc = "done" =>
    /\ Len(result) <= top_k
    /\ \A i \in 1..(Len(result) - 1) : RLeq(result[i + 1].score, result[i].score)
    /\ use_graph =>
         /\ Len(result) = MinOf(top_k, Len(combined))
         /\ Range(result) \subseteq Range(combined)
         /\ \A i, j \in 1..Len(result) : result[i].chunk_id = result[j].chunk_id => i = j
         /\ \A c \in Range(combined) \ Range(result) :
              \A r \in Range(result) : RLeq(c.score, r.score)
    /\ ~use_graph =>
         /\ \A i \in 1..Len(result) : result[i].retrieval_method = "semantic"
         /\ where_queries = <<>>

\* C5 witness: a returned list that is not the head of the combined list
\* (a graph-only entry outranks a semantic one) and leaves candidates out.
C5_Witness ==
  /\ pc = "done"
  /\ use_graph
  /\ Len(combined) > top_k
  /\ result # Take(combined, top_k)

\* The corpus A -> B -> C, one chunk per document, and a semantic search
\* that returned A's chunk alone with a score above 0.4.
ChainScenario ==
  /\ doc_graph = BuildDocumentGraph({"A", "B", "C"},
                   LinksOf({"A", "B", "C"}, {<<"A", "B">>, <<"B", "C">>}))
  /\ DOMAIN collection = {ChunkId("A", 0, 0), ChunkId("B", 0, 0), ChunkId("C", 0, 0)}
  /\ use_graph
  /\ max_hops = 2
  /\ Len(semantic_results) = 1
  /\ semantic_results[1].chunk_id = ChunkId("A", 0, 0)
  /\ RLess(<<4, 10>>, semantic_results[1].score)

\* C6: in the chain scenario the candidate set is {A with its semantic score,
\* B with 0.4, C with 0.8/3}, and retrieve returns [A] for top_k = 1 and
\* [A, B] for top_k = 2.
C6_ChainEndToEnd ==
  ChainScenario =>
    /\ pc \in {"rerank", "done"} =>
         /\ Len(combined) = 3
         /\ combined[1] = semantic_results[1]
         /\ \E i \in 2..3 : /\ combined[i].chunk_id = ChunkId("B", 0, 0)
                            /\ REq(combined[i].score, <<4, 10>>)
         /\ \E i \in 2..3 : /\ combined[i].chunk_id = ChunkId("C", 0, 0)
                            /\ REq(combined[i].score, <<8, 30>>)
    /\ (pc = "done" /\ top_k = 1) =>
         [i \in 1..Len(result) |-> result[i].chunk_id] = <<ChunkId("A", 0, 0)>>
    /\ (pc = "done" /\ top_k = 2) =>
         [i \in 1..Len(result) |-> result[i].chunk_id]
           = <<ChunkId("A", 0, 0), ChunkId("B", 0, 0)>>

\* C6 witness: the chain scenario ran to the end with top_k = 2.
C6_Witness == ChainScenario /\ pc = "done" /\ top_k = 2 /\ Len(result) = 2

(***************************************************************************)
(* Chunking of one section: DocumentIndexer.__init__ (doc_indexer.py:52-96)*)
(* as cmd_index calls it (doc_rag.py:25-35), _chunk_document (266-304) and *)
(* _split_text (326-344).  A text is a sequence of characters; Python's    *)
(* slice and rfind index rules are modelled as they are, also for the      *)
(* negative offsets that start = end - chunk_overlap can produce.          *)
(***************************************************************************)
Chars == {"a", ".", " "}

\* Python's adjustment of a slice bound i for a string of length n.
SliceIndex(i, n) ==
  IF i < 0 THEN (IF i + n < 0 THEN 0 ELSE i + n) ELSE (IF i > n THEN n ELSE i)

\* text[from:to]
Slice(t, from, to) ==
  LET a == SliceIndex(from, Len(t))
      b == SliceIndex(to, Len(t))
  IN  IF a >= b THEN <<>> ELSE SubSeq(t, a + 1, b)

\* text.rfind('. ', from, to): the highest 0-based offset of '. ' inside
\* text[from:to], or -1
RFindSentenceEnd(t, from, to) ==
  LET a == SliceIndex(from, Len(t))
      b == SliceIndex(to, Len(t))
      hits == {i \in a..(b - 2) : t[i + 1] = "." /\ t[i + 2] = " "}
  IN  IF hits = {} THEN -1 ELSE CHOOSE i \in hits : \A j \in hits : j <= i

\* str.strip()
RECURSIVE LStrip(_)
LStrip(t) == IF t # <<>> /\ Head(t) = " " THEN LStrip(Tail(t)) ELSE t
RECURSIVE RStrip(_)
RStrip(t) == IF t # <<>> /\ t[Len(t)] = " " THEN RStrip(SubSeq(t, 1, Len(t) - 1)) ELSE t
Strip(t) == RStrip(LStrip(t))

\* lines 332-339: the end of the window that starts at `from`
WindowEnd(t, from, size) ==
  LET end == from + size
      sentence_end == RFindSentenceEnd(t, from, end)
  IN  IF end < Len(t) /\ sentence_end > from THEN sentence_end + 1 ELSE end

\* line 342: start = end - self.chunk_overlap
NextStart(end, overlap) == end - overlap

\* __init__, lines 70-74: the sizes are stored as given; nothing is checked.
Construct ==
  /\ spc = "new"
  /\ spc' = "constructed"
  /\ UNCHANGED <<chunk_size, chunk_overlap, text, start, windows, chunks>>
  /\ ChunkerOnly

\* _chunk_document, lines 277-278: a section within chunk_size is one chunk
ChunkWhole ==
  /\ spc = "constructed"
  /\ Len(text) <= chunk_size
  /\ chunks' = <<text>>
  /\ windows' = <<<<0, Len(text)>>>>
  /\ spc' = "done"
  /\ UNCHANGED <<chunk_size, chunk_overlap, text, start>>
  /\ ChunkerOnly

\* _chunk_document, lines 279-280, and _split_text, lines 328-329
SplitStart ==
  /\ spc = "constructed"
  /\ Len(text) > chunk_size
  /\ chunks' = <<>>
  /\ windows' = <<>>
  /\ start' = 0
  /\ spc' = "split"
  /\ UNCHANGED <<chunk_size, chunk_overlap, text>>
  /\ ChunkerOnly

\* _split_text, lines 331-342: one iteration of the while loop.  Line 341
\* appends on every iteration; a split that never returns is followed for
\* MaxWindows iterations, which is more than any split that returns makes
\* on a text of MaxTextLen characters.
SplitStep ==
  /\ spc = "split"
  /\ start < Len(text)
  /\ Len(chunks) < MaxWindows
  /\ LET end == WindowEnd(text, start, chunk_size)
     IN  /\ chunks' = Append(chunks, Strip(Slice(text, start, end)))
         /\ windows' = Append(windows, <<start, end>>)
         /\ start' = NextStart(end, chunk_overlap)
  /\ UNCHANGED <<chunk_size, chunk_overlap, text, spc>>
  /\ ChunkerOnly

\* _split_text, lines 331 and 344: the loop ends, the chunks are returned
SplitReturn ==
  /\ spc = "split"
  /\ ~(start < Len(text))
  /\ spc' = "done"
  /\ UNCHANGED <<chunk_size, chunk_overlap, text, start, windows, chunks>>
  /\ ChunkerOnly

ChunkerNext == Construct \/ ChunkWhole \/ SplitStart \/ SplitStep \/ SplitReturn

\* _split_by_sections, lines 306-324: section bodies are stripped (lines
\* 315, 321).  Only the part before the first heading is dropped when it is
\* empty (line 314); the body under a heading is kept as it is (318-322),
\* so the empty text is a section body too.
SectionBodies ==
  {t \in SeqsUpTo(Chars, MaxTextLen) : t = <<>> \/ (t[1] # " " /\ t[Len(t)] # " ")}

\* cmd_index passes --chunk-size and --chunk-overlap as given.
InitChunker ==
  /\ GraphIdle
  /\ CallIdle
  /\ PureIdle
  /\ RetrieverIdle
  /\ collection = <<>>
  /\ IndexerIdle
  /\ chunk_size \in 1..MaxChunkSize
  /\ chunk_overlap \in 0..MaxChunkSize
  /\ text \in SectionBodies
  /\ start = 0
  /\ windows = <<>>
  /\ chunks = <<>>
  /\ spc = "new"

SpecChunker == InitChunker /\ [][ChunkerNext]_vars

\* C7: with chunk_size > chunk_overlap >= 0 the start offset of every window
\* after the first exceeds the previous window's by at least
\* chunk_size - chunk_overlap and at most chunk_size.
C7_StartAdvances ==
  (chunk_size > chunk_overlap /\ chunk_overlap >= 0) =>
    \A i \in 1..(Len(windows) - 1) :
      /\ windows[i + 1][1] - windows[i][1] >= chunk_size - chunk_overlap
      /\ windows[i + 1][1] - windows[i][1] <= chunk_size

\* C8: with chunk_size > chunk_overlap >= 0 the split of every text ends.
\* The loop's next state depends on start alone (text and sizes are fixed)
\* and start stays within -chunk_overlap..Len(text), so the split ends
\* exactly when no window starts at an offset an earlier window started at.
C8_SplitTerminates ==
  (chunk_size > chunk_overlap /\ chunk_overlap >= 0) =>
    \A i, j \in 1..Len(windows) : i < j => windows[i][1] # windows[j][1]

\* C9: _split_text never runs with chunk_size <= chunk_overlap.
C9_OverlapRejected == spc = "split" => chunk_size > chunk_overlap

(***************************************************************************)
(* Index runs: DocumentIndexer.__init__ (doc_indexer.py:52-96) and         *)
(* index_documents (116-166) over a corpus whose documents other processes *)
(* edit at any time.  A document's content is one of Contents; a run is    *)
(* one call of index_documents, and it ends normally or with the exception *)
(* of a failing read, embedding or vector-index call.                      *)
(***************************************************************************)
IndexDocs == {"A", "B"}
Contents == {"v1", "v2"}
\* The DocumentIndexer objects (processes) that work on the same db_path.
Indexers == {"first", "second"}
\* A file is absent or holds data; an indexer object exists once constructed.
NoFile == [exists |-> FALSE]
FileWith(data) == [exists |-> TRUE, data |-> data]
\* open(file, 'w') (lines 109, 387) empties the file.  Until the dump is
\* written, and where the end of another process's longer dump lies behind
\* a shorter one, the file holds no JSON document: json.load raises.
Unreadable == [exists |-> TRUE, readable |-> FALSE]
Readable(file) == file.exists /\ file # Unreadable

\* json.dump(self.content_hashes, f) and the close of the file, line 110.
\* The text is written from the first byte of the file on.  The file was
\* emptied when this process opened it; if another process has written its
\* dump since, that text stays where this one does not reach.  Digests
\* have one length, so two dumps with the same keys have the same length.
DumpedHashes(file, hashes) ==
  IF Readable(file) /\ DOMAIN file.data # DOMAIN hashes
  THEN {FileWith(hashes), Unreadable}
  ELSE {FileWith(hashes)}

\* json.dump(graph_data, f) and the close of the file, line 388; as for the
\* hashes.  The lengths of the titles are not followed: over another
\* process's dump of a different graph either outcome is possible.
DumpedGraph(file, graph) ==
  IF Readable(file) /\ file.data # graph
  THEN {FileWith(graph), Unreadable}
  ELSE {FileWith(graph)}
NoObject == [exists |-> FALSE]

\* _split_by_sections, lines 306-324, on the two contents: "v1" has one
\* section and "v2" two, each within chunk_size.
NumSections(content) == IF content = "v1" THEN 1 ELSE 2

\* _extract_links, lines 232-264, on the two contents: "v2" links to B.
ExtractLinks(content) == IF content = "v2" THEN {"B"} ELSE {}

\* _chunk_document, lines 266-304: the chunks of a document, id -> text
ChunkDocument(file_path, content) ==
  [id \in {ChunkId(file_path, i, 0) : i \in 0..(NumSections(content) - 1)} |-> content]

\* _compute_hash, lines 112-114
ComputeHash(content) == <<"md5", content>>

\* _load_hashes, lines 98-103: json.load of the file if it exists
LoadHashes(file) == IF file.exists THEN file.data ELSE <<>>

\* line 138: self.content_hashes.get(file_path) == content_hash
HashMatches(hashes, file_path, content_hash) ==
  file_path \in DOMAIN hashes /\ hashes[file_path] = content_hash

\* lines 134-149: the documents a run chunks
Staged(files, hashes, force_reindex) ==
  {p \in DOMAIN files : force_reindex \/ ~HashMatches(hashes, p, ComputeHash(files[p]))}

\* line 149 for every staged document
UpdateHashes(hashes, files, staged) ==
  [p \in DOMAIN hashes \cup staged |->
     IF p \in staged THEN ComputeHash(files[p]) ELSE hashes[p]]

\* lines 145-146: documents.extend(chunks) for every staged document
RECURSIVE StagedChunks(_, _)
StagedChunks(files, staged) ==
  IF staged = {} THEN <<>>
  ELSE LET p == CHOOSE q \in staged : TRUE
       IN  ChunkDocument(p, files[p]) @@ StagedChunks(files, staged \ {p})

\* _embed_documents, lines 346-360: one API call per batch
BatchSize == 100
EmbedCalls(n, size) == (n + size - 1) \div size

\* lines 154-158: an exception of the embeddings call or of collection.add
\* is not caught: it ends index_documents
RaisesMutant(outcome) == FALSE
Raises(outcome) == outcome # "ok"

\* _save_graph, lines 371-388: the nodes without their content
SaveGraph(files) ==
  BuildDocumentGraph(DOMAIN files, [p \in DOMAIN files |-> ExtractLinks(files[p])])

\* __init__, lines 79-96: the collection is created if the client has none
\* (86-89), then the persisted hashes are read.  json.load raises on a file
\* that holds no JSON document: no object is constructed.
NewIndexer(i) ==
  LET constructed == ~hash_file.exists \/ Readable(hash_file)
  IN  /\ indexer' = [indexer EXCEPT ![i] =
                       IF constructed
                       THEN [exists |-> TRUE, content_hashes |-> LoadHashes(hash_file)]
                       ELSE NoObject]
      /\ ok_run' = IF ~ok_run.ok THEN ok_run
                   ELSE IF constructed THEN [ok_run EXCEPT !.fresh = @ \cup {i}]
                   ELSE [ok_run EXCEPT !.fresh = @ \ {i}]
      /\ aborted_run' = IF ~aborted_run.aborted THEN aborted_run
                        ELSE IF constructed THEN [aborted_run EXCEPT !.fresh = @ \cup {i}]
                        ELSE [aborted_run EXCEPT !.fresh = @ \ {i}]
      /\ collection_exists' = TRUE
      /\ last_run' = NoRun
      /\ UNCHANGED <<corpus, hash_file, graph_file, runs, collection>>
      /\ UNCHANGED run_count
      /\ IndexerOnly

(***************************************************************************)
(* index_documents, lines 116-166, on indexer object i.  The call is not   *)
(* one step: it lists the files, reads them one by one, waits for the      *)
(* embeddings service and for the database, and opens and writes two       *)
(* files; what other processes do comes between these steps.  runs[i]      *)
(* holds the call in progress: `phase` is the statement it is before,      *)
(* `files` the contents read into self.doc_graph, `documents` the staged   *)
(* chunks.  hash_at_start and graph_at_start are the two files as the call *)
(* found them, others_wrote whether another call has opened or written one *)
(* of them since.                                                          *)
(***************************************************************************)
NoActiveRun == [active |-> FALSE]

\* What a call that has ended did.  `completed`: it returned; otherwise an
\* exception ended it.  graph_now is doc_graph.json as the call leaves it.
RunReport(i, run, completed, graph_now) ==
  [ran |-> TRUE, force |-> run.force, ok |-> completed /\ run.failed = "",
   staged |-> run.staged,
   staged_ids |-> DOMAIN run.documents,
   embed_calls |-> run.embed_calls,
   add_ids |-> run.add_ids,
   after_ok |-> ok_run.ok,
   object |-> IF i \in ok_run.fresh \cup aborted_run.fresh THEN "new"
              ELSE IF i \in {ok_run.by, aborted_run.by} THEN "same" ELSE "stale",
   files_kept |-> hash_file = run.hash_at_start /\ graph_now = run.graph_at_start,
   alone |-> ~run.others_wrote,
   after_abort |-> aborted_run.aborted,
   retried |-> aborted_run.staged \subseteq run.staged,
   upserted |-> \A id \in DOMAIN run.documents :
                  id \in DOMAIN collection /\ collection[id].content = run.documents[id],
   same_corpus |-> run.files = corpus]

\* The call of indexer i goes on as `run`; if the step opened or wrote one
\* of the two files, every other call in progress has seen another process
\* write.
Stepped(i, run, wrote) ==
  [j \in Indexers |->
     IF j = i THEN run
     ELSE IF wrote /\ runs[j].active THEN [runs[j] EXCEPT !.others_wrote = TRUE]
     ELSE runs[j]]

\* The run of indexer i ends: the call returns, having written
\* doc_graph.json, or an exception leaves it.
EndRun(i, run, completed, graph_now) ==
  /\ runs' = Stepped(i, NoActiveRun, completed)
  /\ last_run' = RunReport(i, run, completed, graph_now)
  /\ ok_run' = IF completed /\ run.failed = "" /\ run.files = corpus
               THEN [ok |-> TRUE, by |-> i, fresh |-> {}]
               ELSE NoOkRun
  /\ aborted_run' = IF run.failed = "embed fails" /\ run.files = corpus
                    THEN [aborted |-> TRUE, by |-> i, fresh |-> {}, staged |-> run.staged]
                    ELSE NoAbortedRun

\* lines 126 and 170: md_files = list(rglob("*.md")); self.doc_graph = {}.
\* MaxRuns calls are followed.
StartRun(i, force_reindex) ==
  /\ indexer[i].exists
  /\ ~runs[i].active
  /\ run_count < MaxRuns
  /\ run_count' = run_count + 1
  /\ runs' = [runs EXCEPT ![i] =
                [active |-> TRUE, phase |-> "read", force |-> force_reindex,
                 md_files |-> DOMAIN corpus, files |-> <<>>, staged |-> {},
                 documents |-> <<>>, embed_calls |-> 0, add_ids |-> {}, failed |-> "",
                 hash_at_start |-> hash_file, graph_at_start |-> graph_file,
                 others_wrote |-> FALSE]]
  /\ last_run' = NoRun
  /\ UNCHANGED <<corpus, hash_file, graph_file, indexer, ok_run, aborted_run,
                 collection_exists, collection>>
  /\ IndexerOnly

\* lines 173-177: the next file of the listing is opened and read; a file
\* deleted since the listing makes open() raise.  rglob gives the files in
\* an order of the file system's own.
ReadFile(i, p) ==
  /\ runs[i].active
  /\ runs[i].phase = "read"
  /\ p \in runs[i].md_files \ DOMAIN runs[i].files
  /\ IF p \in DOMAIN corpus
     THEN /\ runs' = [runs EXCEPT ![i].files = (p :> corpus[p]) @@ @]
          /\ last_run' = NoRun
          /\ UNCHANGED <<ok_run, aborted_run>>
     ELSE EndRun(i, [runs[i] EXCEPT !.failed = "read fails"], FALSE, graph_file)
  /\ UNCHANGED <<corpus, hash_file, graph_file, indexer, collection_exists, collection>>
  /\ UNCHANGED run_count
  /\ IndexerOnly

\* lines 196-203 and 133-149: every file is read; the links are extracted
\* and the documents whose hash differs are chunked and their hashes stored
\* in self.content_hashes.  Line 151: without staged chunks nothing is
\* embedded or added.
StageDocuments(i) ==
  /\ runs[i].active
  /\ runs[i].phase = "read"
  /\ runs[i].md_files = DOMAIN runs[i].files
  /\ LET hashes == indexer[i].content_hashes
         staged == Staged(runs[i].files, hashes, runs[i].force)
         documents == StagedChunks(runs[i].files, staged)
     IN  /\ runs' = [runs EXCEPT ![i].staged = staged,
                                 ![i].documents = documents,
                                 ![i].phase = IF DOMAIN documents = {} THEN "open_hashes"
                                              ELSE "embed"]
         /\ indexer' = [indexer EXCEPT ![i].content_hashes =
                          UpdateHashes(hashes, runs[i].files, staged)]
  /\ last_run' = NoRun
  /\ UNCHANGED <<corpus, hash_file, graph_file, ok_run, aborted_run, collection_exists,
                 collection>>
  /\ UNCHANGED run_count
  /\ IndexerOnly

\* line 155, _embed_documents (346-360): the embeddings calls return, or
\* one raises
EmbedDocuments(i, outcome) ==
  /\ runs[i].active
  /\ runs[i].phase = "embed"
  /\ LET run == [runs[i] EXCEPT
                   !.embed_calls = EmbedCalls(Cardinality(DOMAIN runs[i].documents), BatchSize),
                   !.failed = IF outcome = "ok" THEN @ ELSE "embed fails"]
     IN  IF Raises(outcome)
         THEN EndRun(i, run, FALSE, graph_file)
         ELSE /\ runs' = [runs EXCEPT ![i] = [run EXCEPT !.phase = "add"]]
              /\ last_run' = NoRun
              /\ UNCHANGED <<ok_run, aborted_run>>
  /\ UNCHANGED <<corpus, hash_file, graph_file, indexer, collection_exists, collection>>
  /\ UNCHANGED run_count
  /\ IndexerOnly

\* line 158, _add_to_vectordb (362-369): collection.add returns, or raises
AddToVectordb(i, outcome) ==
  /\ runs[i].active
  /\ runs[i].phase = "add"
  /\ LET run == [runs[i] EXCEPT
                   !.add_ids = IF outcome = "ok" THEN DOMAIN runs[i].documents ELSE @,
                   !.failed = IF outcome = "ok" THEN @ ELSE "add fails"]
     IN  IF Raises(outcome)
         THEN /\ EndRun(i, run, FALSE, graph_file)
              /\ UNCHANGED collection
         ELSE /\ runs' = [runs EXCEPT ![i] = [run EXCEPT !.phase = "open_hashes"]]
              /\ collection' = IF outcome = "ok"
                               THEN CollectionAdd(collection, runs[i].documents)
                               ELSE collection
              /\ last_run' = NoRun
              /\ UNCHANGED <<ok_run, aborted_run>>
  /\ UNCHANGED <<corpus, hash_file, graph_file, indexer, collection_exists>>
  /\ UNCHANGED run_count
  /\ IndexerOnly

\* line 161, _save_hashes, lines 107-109: open(hash_file, 'w') creates the
\* file or empties it
OpenHashes(i) ==
  /\ runs[i].active
  /\ runs[i].phase = "open_hashes"
  /\ hash_file' = Unreadable
  /\ runs' = Stepped(i, [runs[i] EXCEPT !.phase = "save_hashes"], TRUE)
  /\ last_run' = NoRun
  /\ UNCHANGED <<corpus, graph_file, indexer, ok_run, aborted_run, collection_exists,
                 collection>>
  /\ UNCHANGED run_count
  /\ IndexerOnly

\* _save_hashes, line 110: the object's map is dumped and the file closed
SaveHashes(i) ==
  /\ runs[i].active
  /\ runs[i].phase = "save_hashes"
  /\ hash_file' \in DumpedHashes(hash_file, indexer[i].content_hashes)
  /\ runs' = Stepped(i, [runs[i] EXCEPT !.phase = "open_graph"], TRUE)
  /\ last_run' = NoRun
  /\ UNCHANGED <<corpus, graph_file, indexer, ok_run, aborted_run, collection_exists,
                 collection>>
  /\ UNCHANGED run_count
  /\ IndexerOnly

\* line 164, _save_graph, lines 373-387: open(graph_file, 'w') creates the
\* file or empties it
OpenGraph(i) ==
  /\ runs[i].active
  /\ runs[i].phase = "open_graph"
  /\ graph_file' = Unreadable
  /\ runs' = Stepped(i, [runs[i] EXCEPT !.phase = "save_graph"], TRUE)
  /\ last_run' = NoRun
  /\ UNCHANGED <<corpus, hash_file, indexer, ok_run, aborted_run, collection_exists,
                 collection>>
  /\ UNCHANGED run_count
  /\ IndexerOnly

\* _save_graph, line 388: the graph is dumped and the file closed; then
\* index_documents returns
SaveGraphAndReturn(i) ==
  /\ runs[i].active
  /\ runs[i].phase = "save_graph"
  /\ graph_file' \in DumpedGraph(graph_file, SaveGraph(runs[i].files))
  /\ EndRun(i, runs[i], TRUE, graph_file')
  /\ UNCHANGED <<corpus, hash_file, indexer, collection_exists, collection>>
  /\ UNCHANGED run_count
  /\ IndexerOnly

\* The steps of the call in progress on indexer i.
RunStep(i) ==
  \/ \E p \in IndexDocs : ReadFile(i, p)
  \/ StageDocuments(i)
  \/ \E outcome \in {"ok", "embed fails"} : EmbedDocuments(i, outcome)
  \/ \E outcome \in {"ok", "add fails"} : AddToVectordb(i, outcome)
  \/ OpenHashes(i)
  \/ SaveHashes(i)
  \/ OpenGraph(i)
  \/ SaveGraphAndReturn(i)

\* Another process writes a markdown file.
EditDocument(p, content) ==
  /\ corpus[p] # content
  /\ corpus' = [corpus EXCEPT ![p] = content]
  /\ ok_run' = NoOkRun
  /\ aborted_run' = NoAbortedRun
  /\ last_run' = NoRun
  /\ UNCHANGED <<hash_file, graph_file, indexer, runs, collection_exists, collection>>
  /\ UNCHANGED run_count
  /\ IndexerOnly

\* index_documents takes no lock: the calls of the processes run side by
\* side.  Files are edited and indexer objects constructed at any time, also
\* between the steps of a call; a file is edited once, to its second
\* content.
IndexerNext ==
  \/ \E i \in Indexers : ~runs[i].active /\ NewIndexer(i)
  \/ \E i \in Indexers, force_reindex \in BOOLEAN : StartRun(i, force_reindex)
  \/ \E i \in Indexers : RunStep(i)
  \/ \E p \in IndexDocs : EditDocument(p, "v2")

InitIndexer ==
  /\ GraphIdle
  /\ CallIdle
  /\ PureIdle
  /\ RetrieverIdle
  /\ ChunkerIdle
  /\ collection = <<>>
  /\ corpus \in [IndexDocs -> Contents]
  /\ hash_file = NoFile
  /\ graph_file = NoFile
  /\ indexer = [i \in Indexers |-> NoObject]
  /\ runs = [i \in Indexers |-> NoActiveRun]
  /\ run_count = 0
  /\ collection_exists = FALSE
  /\ last_run = NoRun
  /\ ok_run = NoOkRun
  /\ aborted_run = NoAbortedRun

SpecIndexer == InitIndexer /\ [][IndexerNext]_vars

\* C10: the run that follows a successful run over the same corpus, without
\* force_reindex and on the same or a newly constructed indexer, stages no
\* document, makes no embedding call and adds nothing to the vector index.
C10_SecondRunSkipsAll ==
  (last_run.ran /\ ~last_run.force /\ last_run.after_ok
     /\ last_run.object \in {"same", "new"}) =>
    /\ last_run.staged = {}
    /\ last_run.embed_calls = 0
    /\ last_run.add_ids = {}
    /\ last_run.ok

\* C11: a run that an embedding call or the collection.add call ended has
\* returned no result, and content_hashes.json and doc_graph.json hold what
\* they held when the run started; a run after which one of them holds
\* something else has completed and had embedded and added every chunk it
\* staged.  The files are compared for the runs during which no other
\* process opened or wrote them.
C11_NoPartialPersistence ==
  (last_run.ran /\ last_run.alone) =>
    /\ ~last_run.ok => last_run.files_kept
    /\ ~last_run.files_kept =>
          /\ last_run.ok
          /\ last_run.add_ids = last_run.staged_ids
          /\ last_run.staged # {} => last_run.embed_calls > 0

\* C11 witness: a run over a corpus whose hashes and graph were persisted
\* before staged a changed document and was ended by a failing call, while
\* no other process wrote the two files.
C11_Witness ==
  /\ last_run.ran /\ last_run.alone /\ ~last_run.ok /\ last_run.staged # {}
  /\ last_run.files_kept
  /\ Readable(hash_file) /\ Readable(graph_file)
  /\ \E p \in last_run.staged : hash_file.data[p] # ComputeHash(corpus[p])

\* C12: the run that follows a run ended by a failing embedding call, without
\* force_reindex, on the same or a newly constructed indexer and over the
\* same corpus, stages again every document the aborted run had staged.
C12_AbortedRunRetried ==
  (last_run.ran /\ ~last_run.force /\ last_run.after_abort
     /\ last_run.object \in {"same", "new"}) => last_run.retried

\* C13: after a run that completed, the vector index holds under every chunk
\* id the run staged the chunk that the run generated, also where the id
\* was in the index before.
C13_AddIsUpsert ==
  (last_run.ran /\ last_run.ok) => last_run.upserted

(***************************************************************************)
(* Graph build, save and load: doc_indexer.py _build_document_graph        *)
(* (168-203), _extract_links (232-264), _save_graph (371-388) and          *)
(* load_graph (390-410).  A path is the sequence of its components; an     *)
(* absolute path starts at the file system root.  The corpus root          *)
(* (docs_dir.resolve()) is CorpusRoot; the working directory of the        *)
(* process is the variable cwd.                                            *)
(***************************************************************************)
CorpusRoot == <<"w", "docs">>
WorkingDirs == {<<"w", "docs">>, <<"w">>, <<"w", "docs", "sub">>}

\* The markdown files a corpus can hold, relative to the corpus root.
MdFiles == {<<"a.md">>, <<"b.md">>, <<"sub", "c.md">>}
Corpora == {MdFiles, MdFiles \ {<<"b.md">>}}

\* The links [text](target) a document can hold: <<kind, path>>.  "http" is
\* an external link, "anchor" a link that is only "#...", "path#" a path
\* followed by an anchor.
LinkTargets ==
  {<<"http", <<"b.md">>>>, <<"anchor", <<>>>>,
   <<"path", <<"b.md">>>>, <<"path#", <<"sub", "c.md">>>>,
   <<"path", <<"..", "a.md">>>>, <<"path", <<"x.md">>>>,
   <<"path", <<"..", "..", "o.md">>>>}
LinkSets == {L \in SUBSET LinkTargets : Cardinality(L) <= MaxLinks}

\* Path(p).parent
Parent(p) == IF p = <<>> THEN <<>> ELSE SubSeq(p, 1, Len(p) - 1)

\* (base / rel).resolve() for an absolute base: ".." leaves a directory, at
\* the file system root it stays there.
RECURSIVE Normalise(_, _)
Normalise(base, rel) ==
  IF rel = <<>> THEN base
  ELSE Normalise(IF Head(rel) = ".." THEN Parent(base) ELSE Append(base, Head(rel)),
                 Tail(rel))

IsUnder(p, root) == Len(p) >= Len(root) /\ SubSeq(p, 1, Len(root)) = root

\* lines 253-254: current_dir / link_path is a relative path, and resolve()
\* makes it absolute against the working directory of the process.
Resolved(working_dir, current_file, link_path) ==
  Normalise(Normalise(working_dir, Parent(current_file)), link_path)

\* _extract_links, lines 232-264: the corpus-relative targets of the links
\* of one document
ExtractLinksOf(links, current_file, working_dir) ==
  {SubSeq(Resolved(working_dir, current_file, l[2]), Len(CorpusRoot) + 1,
          Len(Resolved(working_dir, current_file, l[2]))) :
     l \in {k \in links : /\ k[1] \in {"path", "path#"}
                          /\ IsUnder(Resolved(working_dir, current_file, k[2]), CorpusRoot)}}

\* lines 172-193: the node of a document before the links are extracted
TitleOf(rel_path) == <<"title of", rel_path>>
MetadataOf(rel_path) == [file_path |-> rel_path]

\* _build_document_graph, lines 168-203
DocumentNodes(files, working_dir) ==
  LET g == BuildDocumentGraph(DOMAIN files,
                              [d \in DOMAIN files |-> ExtractLinksOf(files[d], d, working_dir)])
  IN  [d \in DOMAIN files |->
         [file_path |-> d, title |-> TitleOf(d), content |-> <<"text", files[d]>>,
          outgoing_links |-> g[d].outgoing_links,
          incoming_links |-> g[d].incoming_links,
          metadata |-> MetadataOf(d)]]

\* _save_graph, lines 375-385: the forms one node can be written in; the
\* link sets become lists in some order, the content is left out.
NodeForms(node) ==
  {[title |-> node.title, file_path |-> node.file_path,
    outgoing_links |-> o, incoming_links |-> i, metadata |-> node.metadata] :
     o \in Orderings(node.outgoing_links), i \in Orderings(node.incoming_links)}

RECURSIVE GraphData(_, _)
GraphData(graph, todo) ==
  IF todo = {} THEN {<<>>}
  ELSE LET path == CHOOSE p \in todo : TRUE
       IN  {(path :> form) @@ rest :
              form \in NodeForms(graph[path]), rest \in GraphData(graph, todo \ {path})}

\* load_graph, lines 400-410
LoadedNodeMutant(data) ==
  [file_path |-> data.file_path, title |-> data.title, content |-> <<>>,
   outgoing_links |-> Range(data.outgoing_links),
   incoming_links |-> Range(data.outgoing_links),
   metadata |-> data.metadata]
LoadedNode(data) ==
  [file_path |-> data.file_path, title |-> data.title, content |-> <<>>,
   outgoing_links |-> Range(data.outgoing_links),
   incoming_links |-> Range(data.incoming_links),
   metadata |-> data.metadata]

\* _build_document_graph(md_files) on the indexer, from index_documents line 130
BuildGraph ==
  /\ gpc = "new"
  /\ built_graph' = DocumentNodes(md_links, cwd)
  /\ gpc' = "built"
  /\ UNCHANGED <<md_links, cwd, graph_json, loaded_graph>>
  /\ GraphOnly

\* _save_graph(), from index_documents line 164
SaveGraphFile ==
  /\ gpc = "built"
  /\ \E data \in GraphData(built_graph, DOMAIN built_graph) : graph_json' = FileWith(data)
  /\ gpc' = "saved"
  /\ UNCHANGED <<md_links, cwd, built_graph, loaded_graph>>
  /\ GraphOnly

\* load_graph() on an indexer over the same db_path
LoadGraph ==
  /\ gpc = "saved"
  /\ loaded_graph' = IF graph_json.exists
                     THEN [path \in DOMAIN graph_json.data |-> LoadedNode(graph_json.data[path])]
                     ELSE loaded_graph
  /\ gpc' = "loaded"
  /\ UNCHANGED <<md_links, cwd, built_graph, graph_json>>
  /\ GraphOnly

GraphNext == BuildGraph \/ SaveGraphFile \/ LoadGraph

InitGraph ==
  /\ RetrieverIdle
  /\ CallIdle
  /\ PureIdle
  /\ collection = <<>>
  /\ ChunkerIdle
  /\ IndexerIdle
  /\ \E files \in Corpora :
       md_links \in {f \in [files -> LinkSets] :
                       <<"b.md">> \in files => f[<<"b.md">>] = {}}
  /\ cwd \in WorkingDirs
  /\ built_graph = <<>>
  /\ graph_json = NoFile
  /\ loaded_graph = <<>>
  /\ gpc = "new"

SpecGraph == InitGraph /\ [][GraphNext]_vars

\* The graph has been built.
GraphBuilt == gpc \in {"built", "saved", "loaded"}

\* C14: after a graph build every path in a node's outgoing set and in its
\* incoming set is the path of a node of the same build.
C14_LinksAreNodes ==
  GraphBuilt =>
    \A d \in DOMAIN built_graph :
      /\ built_graph[d].outgoing_links \subseteq DOMAIN built_graph
      /\ built_graph[d].incoming_links \subseteq DOMAIN built_graph

\* C15: after a graph build, for all nodes A and B, A is in B's incoming
\* set if and only if B is in A's outgoing set.
C15_IncomingIsTranspose ==
  GraphBuilt =>
    \A A \in DOMAIN built_graph : \A B \in DOMAIN built_graph :
      A \in built_graph[B].incoming_links <=> B \in built_graph[A].outgoing_links

\* C15 witness: a build in which a node links to another node that does not
\* link back, and some node holds a target that is no node.
C15_Witness ==
  /\ gpc = "built"
  /\ \E A \in DOMAIN built_graph : \E B \in DOMAIN built_graph :
       /\ A # B
       /\ B \in built_graph[A].outgoing_links
       /\ A \notin built_graph[B].outgoing_links
  /\ \E d \in DOMAIN built_graph : ~(built_graph[d].outgoing_links \subseteq DOMAIN built_graph)

\* The target of a link resolved against the directory of the referencing
\* document under the corpus root.
TargetUnderRoot(current_file, link_path) ==
  Normalise(Normalise(CorpusRoot, Parent(current_file)), link_path)

\* C16: a link of document D that is not external and not only an anchor and
\* whose target, resolved against D's directory under the corpus root, is
\* the document T puts T in D's outgoing set and D in T's incoming set, for
\* every working directory.
C16_ResolvedAgainstDocument ==
  GraphBuilt =>
    \A D \in DOMAIN md_links : \A l \in md_links[D] :
      LET target == TargetUnderRoot(D, l[2])
          T == SubSeq(target, Len(CorpusRoot) + 1, Len(target))
      IN  (l[1] \in {"path", "path#"} /\ IsUnder(target, CorpusRoot) /\ T \in DOMAIN md_links) =>
            /\ T \in built_graph[D].outgoing_links
            /\ D \in built_graph[T].incoming_links

\* C17: loading a saved graph gives, for exactly the paths of the saved
\* graph, nodes with the same title, file path, metadata, outgoing and
\* incoming sets, and with empty content.
C17_SaveLoadRoundTrip ==
  gpc = "loaded" =>
    /\ DOMAIN loaded_graph = DOMAIN built_graph
    /\ \A p \in DOMAIN built_graph :
         loaded_graph[p] = [built_graph[p] EXCEPT !.content = <<>>]

\* C17 witness: a graph was saved and loaded in which a node has two outgoing
\* links, written in an order of the file's own, and another incoming set.
C17_Witness ==
  /\ gpc = "loaded"
  /\ \E p \in DOMAIN loaded_graph :
       /\ Cardinality(loaded_graph[p].outgoing_links) = 2
       /\ loaded_graph[p].incoming_links # {}
       /\ loaded_graph[p].incoming_links # loaded_graph[p].outgoing_links
       /\ built_graph[p].content # <<>>

(***************************************************************************)
(* Claims about index runs of two processes over the same db_path.         *)
(***************************************************************************)
\* C18: at most one index run over db_path is between its start and the
\* writing of its files.
C18_RunsNeverOverlap ==
  Cardinality({i \in Indexers : runs[i].active}) <= 1

\* C20: retrieve never ends with an exception: no popped path is looked up
\* in the graph unless it is a key of it, whatever the semantic search
\* returned, the graph and the index hold, use_graph and max_hops are; and
\* when the semantic search returns nothing, retrieve returns the empty
\* list.
C20_RetrieveNeverRaises ==
  /\ pc # "error"
  /\ (pc = "done" /\ semantic_results = <<>>) => result = <<>>

\* C20 witness: retrieve returned after a traversal in which a seed was no
\* node of the loaded graph and a linked path was neither a node nor held a
\* chunk in the index.
C20_Witness ==
  /\ pc = "done"
  /\ use_graph
  /\ \E i \in 1..Len(seed_docs) : seed_docs[i] \notin DOMAIN doc_graph
  /\ \E i \in 1..Len(related_docs) :
       /\ related_docs[i][1] \notin DOMAIN doc_graph
       /\ \A c \in DOMAIN collection : FilePathOf(c) # related_docs[i][1]
       /\ related_docs[i][1] \in Range(where_queries)

(***************************************************************************)
(* Queries against a db_path that an indexer works on: DocumentRetriever   *)
(* __init__ and _load_graph (doc_retriever.py:37-74), then one retrieve.   *)
(* pc = "idle": no retriever was constructed; "raised": its construction   *)
(* raised; "ready": it was constructed.                                    *)
(***************************************************************************)
\* _load_graph, lines 66-74: json.load of the file if it exists
LoadGraphFile(file) == IF file.exists THEN file.data ELSE <<>>

\* DocumentRetriever.__init__, lines 49-64: get_collection raises if the
\* client has no collection "documents", json.load if doc_graph.json holds
\* no JSON document
NewRetriever ==
  /\ pc = "idle"
  /\ IF collection_exists /\ (~graph_file.exists \/ Readable(graph_file))
     THEN /\ doc_graph' = LoadGraphFile(graph_file)
          /\ pc' = "ready"
     ELSE /\ pc' = "raised"
          /\ UNCHANGED doc_graph
  /\ RetrieverOnly
  /\ UNCHANGED <<collection, top_k, use_graph, max_hops, semantic_results, seed_docs,
                 max_results, visited, to_visit, related_docs, where_queries,
                 graph_results, combined, result>>

\* retrieve(query, top_k, use_graph, max_hops) is called, lines 76-82
BeginRetrieve(k, graph, hops) ==
  /\ pc = "ready"
  /\ top_k' = k
  /\ use_graph' = graph
  /\ max_hops' = hops
  /\ pc' = "semantic"
  /\ RetrieverOnly
  /\ UNCHANGED <<doc_graph, collection, semantic_results, seed_docs, max_results,
                 visited, to_visit, related_docs, where_queries, graph_results,
                 combined, result>>

\* The indexer of the db_path: one object, runs without force_reindex.
QueryNext ==
  \/ ~runs["first"].active /\ NewIndexer("first")
  \/ StartRun("first", FALSE)
  \/ RunStep("first")
  \/ NewRetriever
  \/ \E k \in 1..MaxTopK, graph \in BOOLEAN, hops \in 0..MaxHops : BeginRetrieve(k, graph, hops)
  \/ RetrieveNext

SpecQuery == InitIndexer /\ [][QueryNext]_vars

\* C19: retrieve returns a result list only if an index run has written the
\* hash map and the graph snapshot of the db_path.
C19_QueryBeforeIndexFails ==
  pc = "done" => (hash_file.exists /\ graph_file.exists)

(***************************************************************************)
(* Two retrieve calls on one DocumentRetriever, their steps interleaved in *)
(* any order.  Every name retrieve and its helpers assign is a local of    *)
(* the call (doc_retriever.py:96-112, 167-169, 198, 229-230); the calls    *)
(* share self.doc_graph and self.collection.  The variables of retrieve    *)
(* hold the locals of the call that is running, `parked` those of the      *)
(* other call.                                                             *)
(***************************************************************************)
\* The locals of the running call.
Locals ==
  [top_k |-> top_k, use_graph |-> use_graph, max_hops |-> max_hops,
   semantic_results |-> semantic_results, seed_docs |-> seed_docs,
   max_results |-> max_results, visited |-> visited, to_visit |-> to_visit,
   related_docs |-> related_docs, where_queries |-> where_queries,
   graph_results |-> graph_results, combined |-> combined, result |-> result,
   pc |-> pc]

\* The locals of a call that has not run yet.
NewCall(k, graph, hops) ==
  [top_k |-> k, use_graph |-> graph, max_hops |-> hops,
   semantic_results |-> <<>>, seed_docs |-> <<>>, max_results |-> 0,
   visited |-> {}, to_visit |-> <<>>, related_docs |-> <<>>,
   where_queries |-> <<>>, graph_results |-> <<>>, combined |-> <<>>,
   result |-> <<>>, pc |-> "semantic"]

\* The scheduler runs the other call.
SwitchCall ==
  /\ parked # NoCall
  /\ parked' = Locals
  /\ top_k' = parked.top_k
  /\ use_graph' = parked.use_graph
  /\ max_hops' = parked.max_hops
  /\ semantic_results' = parked.semantic_results
  /\ seed_docs' = parked.seed_docs
  /\ max_results' = parked.max_results
  /\ visited' = parked.visited
  /\ to_visit' = parked.to_visit
  /\ related_docs' = parked.related_docs
  /\ where_queries' = parked.where_queries
  /\ graph_results' = parked.graph_results
  /\ combined' = parked.combined
  /\ result' = parked.result
  /\ pc' = parked.pc
  /\ UNCHANGED <<doc_graph, collection, splitVars, indexVars, graphVars,
                 idVars, embedVars, langVars>>

TwoCallsNext == RetrieveNext \/ SwitchCall

\* The corpus A -> B -> C, D -> B, one chunk per document; both calls ask
\* for one result.
TwoCallsDocs == {"A", "B", "C", "D"}
TwoCallsEdges == {<<"A", "B">>, <<"B", "C">>, <<"D", "B">>}

InitTwoCalls ==
  /\ GraphIdle
  /\ PureIdle
  /\ ChunkerIdle
  /\ IndexerIdle
  /\ doc_graph = BuildDocumentGraph(TwoCallsDocs, LinksOf(TwoCallsDocs, TwoCallsEdges))
  /\ collection = IndexedOnce(UniformCollection(TwoCallsDocs, 1))
  /\ \E graph \in BOOLEAN, hops \in {1, 2} :
       /\ top_k = 1
       /\ use_graph = graph
       /\ max_hops = hops
  /\ \E graph \in BOOLEAN, hops \in {1, 2} : parked = NewCall(1, graph, hops)
  /\ seed_docs = <<>>
  /\ max_results = 0
  /\ semantic_results = <<>>
  /\ visited = {}
  /\ to_visit = <<>>
  /\ related_docs = <<>>
  /\ where_queries = <<>>
  /\ graph_results = <<>>
  /\ combined = <<>>
  /\ result = <<>>
  /\ pc = "semantic"

SpecTwoCalls == InitTwoCalls /\ [][TwoCallsNext]_vars

\* What a finished call returned follows from its own semantic results and
\* its own walk over the graph and the index as they are.
ResultOfOwnCall(call) ==
  call.pc = "done" =>
    /\ \E outcome \in SemanticOutcomes(collection, call.top_k) :
         call.semantic_results = SemanticDocs(outcome)
    /\ IF call.use_graph
       THEN LET fetched == FetchAll(DocsToFetch(call.related_docs, call.max_results),
                                    collection)
            IN  /\ call.graph_results = GraphAfterCombine(call.semantic_results, fetched)
                /\ call.result
                     = Rerank(CombineResults(call.semantic_results, fetched), call.top_k)
       ELSE call.result = call.semantic_results

\* No step of a call changes the graph, the index or the other call's locals.
ReadOnlyStep ==
  /\ doc_graph' = doc_graph
  /\ collection' = collection
  /\ parked' # parked => (parked' = Locals /\ Locals' = parked)

\* C21: retrieve is read-only: every step of every call leaves the loaded
\* graph and the vector index as they were, and steps of two calls
\* interleaved in any order leave each call with the result of its own
\* semantic search and walk.
C21_RetrieveReadOnly ==
  /\ []ResultOfOwnCall(Locals)
  /\ []ResultOfOwnCall(parked)
  /\ [][ReadOnlyStep]_vars

\* C21 witness: both calls are in the middle of their walks: each has
\* expanded a node with links and has entries left to visit.
C21_Witness ==
  /\ pc = "traverse"
  /\ parked.pc = "traverse"
  /\ related_docs # <<>>
  /\ parked.related_docs # <<>>
  /\ to_visit # <<>>
  /\ parked.to_visit # <<>>

(***************************************************************************)
(* Claims about the result of retrieve and of the traversal.               *)
(***************************************************************************)
\* The only seed is no node of the graph, or a node without links.
SoleSeedWithoutLinks ==
  /\ Len(seed_docs) = 1
  /\ seed_docs[1] \in DOMAIN doc_graph =>
       /\ doc_graph[seed_docs[1]].outgoing_links = {}
       /\ doc_graph[seed_docs[1]].incoming_links = {}

\* C22: from a sole seed without links, or unknown to the graph, the
\* traversal records no document and returns no chunk, whatever max_hops
\* and max_results are.
C22_LoneSeedYieldsNothing ==
  SoleSeedWithoutLinks =>
    /\ related_docs = <<>>
    /\ where_queries = <<>>
    /\ graph_results = <<>>

\* C22 witness: the traversal has returned for a sole seed that is a node
\* without links, with the largest max_hops, in a graph that has links.
C22_Witness ==
  /\ pc = "combine"
  /\ SoleSeedWithoutLinks
  /\ seed_docs[1] \in DOMAIN doc_graph
  /\ max_hops = MaxHops
  /\ \E d \in DOMAIN doc_graph : doc_graph[d].outgoing_links # {}

\* The hop distance the traversal recorded for the document of a chunk.
RecordedHop(file_path) ==
  (CHOOSE e \in Range(related_docs) : e[1] = file_path)[2]

\* The entries of a list that came from the graph alone.
HybridEntries(docs) == {i \in 1..Len(docs) : docs[i].retrieval_method = "hybrid"}

\* C23: a chunk the traversal fetched for a document recorded at hop
\* distance h has score 1 / (h + 1) in the traversal's list and
\* 0.8 / (h + 1) in the combined list, and the graph-only entries of the
\* returned list are in non-decreasing hop distance.
C23_HopDecayOrder ==
  /\ (use_graph /\ pc \in {"traverse", "combine"}) =>
       \A i \in 1..Len(graph_results) :
         /\ \E e \in Range(related_docs) : e[1] = graph_results[i].file_path
         /\ REq(graph_results[i].score, <<1, RecordedHop(graph_results[i].file_path) + 1>>)
         /\ graph_results[i].retrieval_method = "graph"
  /\ (use_graph /\ pc \in {"rerank", "done"}) =>
       \A i \in HybridEntries(combined) :
         REq(combined[i].score, <<8, 10 * (RecordedHop(combined[i].file_path) + 1)>>)
  /\ (use_graph /\ pc = "done") =>
       \A i, j \in HybridEntries(result) :
         i < j => RecordedHop(result[i].file_path) <= RecordedHop(result[j].file_path)

\* C23 witness: the returned list holds a graph-only chunk of hop distance 1
\* directly before a graph-only chunk of hop distance 2, and the combined
\* list had them in another order or apart.
C23_Witness ==
  /\ pc = "done"
  /\ use_graph
  /\ \E i \in HybridEntries(result) :
       /\ (i + 1) \in HybridEntries(result)
       /\ RecordedHop(result[i].file_path) = 1
       /\ RecordedHop(result[i + 1].file_path) = 2
  /\ semantic_results # <<>>

\* C28: the traversal records no seed document, so the semantic results and
\* the graph results of one call have no chunk id in common, and every
\* entry retrieve returns is tagged 'semantic' or 'hybrid'.
C28_SeedsNotReturned ==
  /\ \A i \in 1..Len(related_docs) : related_docs[i][1] \notin Range(seed_docs)
  /\ \A i \in 1..Len(graph_results) : graph_results[i].file_path \notin Range(seed_docs)
  /\ IdsOf(semantic_results) \cap IdsOf(graph_results) = {}
  /\ \A i \in 1..Len(result) : result[i].retrieval_method \in {"semantic", "hybrid"}

\* C28 witness: retrieve returned a graph-only entry after a walk that
\* expanded a document linked with a seed, reaching the seed again.
C28_Witness ==
  /\ pc = "done"
  /\ use_graph
  /\ \E i \in 1..Len(result) : result[i].retrieval_method = "hybrid"
  /\ \E i \in 1..Len(related_docs) :
       /\ related_docs[i][2] < max_hops
       /\ related_docs[i][1] \in DOMAIN doc_graph
       /\ related_docs[i][1] \in Range(where_queries)
       /\ Range(seed_docs) \cap (doc_graph[related_docs[i][1]].outgoing_links
                                   \cup doc_graph[related_docs[i][1]].incoming_links) # {}

(***************************************************************************)
(* Claims about the windows of _split_text.                                *)
(***************************************************************************)
\* The 0-based character positions text[from:to] takes from a text of
\* length n.
PositionsOf(from, to, n) == SliceIndex(from, n)..(SliceIndex(to, n) - 1)

\* C29: for chunk_size > chunk_overlap >= 0 and a section body longer than
\* chunk_size, every window of _split_text starts at an offset >= 0, and
\* when the split has returned every character position of the body lies in
\* a window.
C29_NoTextLost ==
  (chunk_size > chunk_overlap /\ chunk_overlap >= 0 /\ Len(text) > chunk_size) =>
    /\ \A i \in 1..Len(windows) : windows[i][1] >= 0
    /\ spc = "done" =>
         \A pos \in 0..(Len(text) - 1) :
           \E i \in 1..Len(windows) : pos \in PositionsOf(windows[i][1], windows[i][2], Len(text))

(***************************************************************************)
(* Claims about the persisted hash map.                                    *)
(***************************************************************************)
\* C27: whenever content_hashes.json maps a path to the digest of a
\* content, the vector index holds every chunk of that content of the
\* document.
C27_HashImpliesChunks ==
  Readable(hash_file) =>
    \A p \in DOMAIN hash_file.data : \A content \in Contents :
      hash_file.data[p] = ComputeHash(content) =>
        \A id \in DOMAIN ChunkDocument(p, content) :
          id \in DOMAIN collection /\ collection[id].content = content

(***************************************************************************)
(* Index runs over a corpus from which documents are removed between runs. *)
(***************************************************************************)
\* Another process deletes a markdown file.
RemoveDocument(p) ==
  /\ p \in DOMAIN corpus
  /\ corpus' = [q \in DOMAIN corpus \ {p} |-> corpus[q]]
  /\ ok_run' = NoOkRun
  /\ aborted_run' = NoAbortedRun
  /\ last_run' = NoRun
  /\ UNCHANGED <<hash_file, graph_file, indexer, runs, collection_exists, collection>>
  /\ UNCHANGED run_count
  /\ IndexerOnly

\* One indexer object works on the db_path.
CorpusChangeNext ==
  \/ ~runs["first"].active /\ NewIndexer("first")
  \/ \E force_reindex \in BOOLEAN : StartRun("first", force_reindex)
  \/ RunStep("first")
  \/ \E p \in IndexDocs, content \in Contents : p \in DOMAIN corpus /\ EditDocument(p, content)
  \/ \E p \in IndexDocs : RemoveDocument(p)

SpecCorpusChange == InitIndexer /\ [][CorpusChangeNext]_vars

\* C30: after a run that completed over the corpus as it is (no file was
\* written or deleted since the run read it), content_hashes.json and
\* doc_graph.json have the same keys, the documents of the corpus at that
\* run, and every persisted digest is the digest of the document's content.
C30_FilesDescribeCorpus ==
  (last_run.ran /\ last_run.ok /\ last_run.same_corpus) =>
    /\ DOMAIN hash_file.data = DOMAIN corpus
    /\ DOMAIN graph_file.data = DOMAIN corpus
    /\ \A p \in DOMAIN corpus : hash_file.data[p] = ComputeHash(corpus[p])

(***************************************************************************)
(* The chunk ids of a corpus build: _chunk_document, doc_indexer.py:       *)
(* 266-304.  A string is a sequence of characters, so that the id          *)
(* f"{node.file_path}__chunk_{i}_{j}" is the text the code builds.  A      *)
(* document's content is given by what _split_by_sections and _split_text  *)
(* make of it: the number of parts of each of its sections.                *)
(***************************************************************************)
Md == <<".", "m", "d">>
ChunkMark == <<"_", "_", "c", "h", "u", "n", "k", "_">>

\* str(n) of an int n >= 0
DigitChars == <<"0", "1", "2", "3", "4", "5", "6", "7", "8", "9">>
RECURSIVE Str(_)
Str(n) == IF n < 10 THEN <<DigitChars[n + 1]>> ELSE Str(n \div 10) \o <<DigitChars[(n % 10) + 1]>>

\* line 283
FormatChunkId(file_path, i, j) == file_path \o ChunkMark \o Str(i) \o <<"_">> \o Str(j)

\* Relative paths of markdown files (rglob("*.md"), line 126): a.md, a1.md
\* and a file whose name holds the text of a chunk id, a.md__chunk_1_1.md.
IdPaths ==
  {<<"a">> \o Md, <<"a", "1">> \o Md,
   <<"a">> \o Md \o ChunkMark \o <<"1", "_", "1">> \o Md}

\* A document without sections, or with n sections of k parts each.
Shapes ==
  {<<>>} \cup {[sec \in 1..n |-> k] : n \in {1, MaxSections}, k \in {1, MaxParts}}

\* lines 282-283 for section i: the ids of its parts, j = 0, 1, ...
PartIds(file_path, i, parts) == [n \in 1..parts |-> FormatChunkId(file_path, i, n - 1)]

\* line 275: enumerate(sections) counts from 0 in every call of
\* _chunk_document, whatever the run has staged in `documents` before it
FirstIndexMutant(documents) == Len(documents)
FirstIndex(documents) == 0

\* lines 275-302: the ids of the chunks of a document, in the order of the
\* returned list; `done` sections are behind.
RECURSIVE SectionIds(_, _, _, _)
SectionIds(file_path, shape, first, done) ==
  IF done = Len(shape) THEN <<>>
  ELSE PartIds(file_path, first + done, shape[done + 1])
         \o SectionIds(file_path, shape, first, done + 1)

\* _chunk_document called while the run holds the staged list `documents`
ChunkIdsOf(file_path, shape, documents) ==
  SectionIds(file_path, shape, FirstIndex(documents), 0)

\* index_documents, lines 133-146: the loop over the files in the order
\* `order`; each document is chunked and its chunks are appended to the
\* staged list (documents.extend(chunks)).  st.ids maps a path to the ids
\* its chunks were given; a run starts with documents = [] (line 133).
RECURSIVE StageAll(_, _, _)
StageAll(order, shapes, st) ==
  IF order = <<>> THEN st
  ELSE LET file_path == Head(order)
           ids == ChunkIdsOf(file_path, shapes[file_path], st.documents)
       IN  StageAll(Tail(order), shapes,
                    [ids |-> (file_path :> ids) @@ st.ids,
                     documents |-> st.documents \o ids])

\* A run that stages every document; rglob (line 126) yields the files in
\* the order of the directory listing, which is any order.
ChunkCorpus ==
  /\ ipc = "new"
  /\ \E order \in Orderings(DOMAIN id_corpus) :
       first_ids' = StageAll(order, id_corpus, [ids |-> <<>>, documents |-> <<>>]).ids
  /\ ipc' = "chunked"
  /\ UNCHANGED <<id_corpus, second_ids>>
  /\ UNCHANGED <<retrVars, collection, splitVars, indexVars, graphVars, callVars,
                 embedVars, langVars>>

\* A later run (force_reindex, or one of another indexer object) chunks the
\* unchanged documents `files` again: the other documents were removed, and
\* the directory is listed in any order.
ChunkAgain(files) ==
  /\ ipc = "chunked"
  /\ \E order \in Orderings(files) :
       second_ids' = StageAll(order, id_corpus, [ids |-> <<>>, documents |-> <<>>]).ids
  /\ ipc' = "rechunked"
  /\ UNCHANGED <<id_corpus, first_ids>>
  /\ UNCHANGED <<retrVars, collection, splitVars, indexVars, graphVars, callVars,
                 embedVars, langVars>>

ChunkIdsNext ==
  \/ ChunkCorpus
  \/ \E files \in (SUBSET DOMAIN id_corpus) \ {{}} : ChunkAgain(files)

InitChunkIds ==
  /\ GraphIdle
  /\ CallIdle
  /\ RetrieverIdle
  /\ collection = <<>>
  /\ ChunkerIdle
  /\ IndexerIdle
  /\ EmbedIdle
  /\ LangIdle
  /\ \E files \in (SUBSET IdPaths) \ {{}} : id_corpus \in [files -> Shapes]
  /\ first_ids = <<>>
  /\ second_ids = <<>>
  /\ ipc = "new"

SpecChunkIds == InitChunkIds /\ [][ChunkIdsNext]_vars

\* C24: within one corpus build no two chunks, of one document or of two,
\* have the same id; every id begins with the path of its document; and a
\* document chunked again with the same content, in a run that stages other
\* documents before it or in another order, is given the same list of ids.
C24_ChunkIdsUnique ==
  /\ ipc \in {"chunked", "rechunked"} =>
       /\ \A f \in DOMAIN first_ids :
            /\ Cardinality(Range(first_ids[f])) = Len(first_ids[f])
            /\ \A n \in 1..Len(first_ids[f]) :
                 SubSeq(first_ids[f][n], 1, Len(f) + Len(ChunkMark)) = f \o ChunkMark
       /\ \A f, g \in DOMAIN first_ids :
            f # g => Range(first_ids[f]) \cap Range(first_ids[g]) = {}
  /\ ipc = "rechunked" =>
       \A f \in DOMAIN second_ids : second_ids[f] = first_ids[f]

\* C24 witness: a.md with section and part indices of two digits and the
\* file a.md__chunk_1_1.md were chunked in one build, and a.md was chunked
\* again in a run over fewer documents.
C24_Witness ==
  /\ ipc = "rechunked"
  /\ (<<"a">> \o Md) \in DOMAIN second_ids
  /\ DOMAIN second_ids # DOMAIN first_ids
  /\ Len(first_ids[<<"a">> \o Md]) = MaxSections * MaxParts
  /\ \E f \in DOMAIN first_ids : Len(f) > Len(Md) + 2 /\ first_ids[f] # <<>>

(***************************************************************************)
(* _embed_documents, doc_indexer.py:346-360, on a list of staged chunks    *)
(* and for a batch size.  The embeddings service answers a request with    *)
(* one entry per input text, in the order of the inputs.                   *)
(***************************************************************************)
Texts == {"t1", "t2"}

\* Document(id, content, metadata): embedding is None until assigned
\* (doc_indexer.py:25-31).  The n-th staged chunk has the id n.
NoEmbedding == <<"None">>
StagedLists ==
  {[n \in 1..Len(cs) |-> [id |-> n, content |-> cs[n], embedding |-> NoEmbedding]] :
     cs \in SeqsUpTo(Texts, MaxStaged)}

\* The vector the service computes for a text.
Embedding(content) == <<"vector of", content>>

\* openai_client.embeddings.create(input=texts), lines 353-356: response.data
CreateEmbeddings(texts) ==
  [k \in 1..Len(texts) |-> [index |-> k - 1, embedding |-> Embedding(texts[k])]]

\* line 349: documents[i:i + batch_size]
BatchOf(docs, i, size) == Slice(docs, i, i + size)

\* lines 359-360: zip(batch, response.data) pairs by position and stops at
\* the shorter list
AssignEmbeddingsMutant(batch, data) ==
  [k \in 1..Len(batch) |->
     IF k <= Len(data) THEN [batch[k] EXCEPT !.embedding = data[Len(data) + 1 - k].embedding]
     ELSE batch[k]]
AssignEmbeddings(batch, data) ==
  [k \in 1..Len(batch) |->
     IF k <= Len(data) THEN [batch[k] EXCEPT !.embedding = data[k].embedding]
     ELSE batch[k]]

\* lines 348-360: one iteration of the for loop over range(0, len, batch_size)
EmbedBatch ==
  /\ epc = "embed"
  /\ batch_start < Len(staged_docs)
  /\ LET batch == BatchOf(staged_docs, batch_start, batch_size)
         texts == [k \in 1..Len(batch) |-> batch[k].content]
         embedded == AssignEmbeddings(batch, CreateEmbeddings(texts))
     IN  /\ requests' = Append(requests, texts)
         /\ staged_docs' =
              [n \in 1..Len(staged_docs) |->
                 IF n > batch_start /\ n <= batch_start + Len(batch)
                 THEN embedded[n - batch_start] ELSE staged_docs[n]]
  /\ batch_start' = batch_start + batch_size
  /\ UNCHANGED <<batch_size, epc>>
  /\ UNCHANGED <<retrVars, collection, splitVars, indexVars, graphVars, callVars,
                 idVars, langVars>>

\* line 348: the range is exhausted, the call returns
EmbedReturn ==
  /\ epc = "embed"
  /\ ~(batch_start < Len(staged_docs))
  /\ epc' = "done"
  /\ UNCHANGED <<staged_docs, batch_size, batch_start, requests>>
  /\ UNCHANGED <<retrVars, collection, splitVars, indexVars, graphVars, callVars,
                 idVars, langVars>>

EmbedNext == EmbedBatch \/ EmbedReturn

InitEmbed ==
  /\ GraphIdle
  /\ CallIdle
  /\ RetrieverIdle
  /\ collection = <<>>
  /\ ChunkerIdle
  /\ IndexerIdle
  /\ IdIdle
  /\ LangIdle
  /\ staged_docs \in StagedLists
  /\ batch_size \in 1..MaxBatch
  /\ batch_start = 0
  /\ requests = <<>>
  /\ epc = "embed"

SpecEmbed == InitEmbed /\ [][EmbedNext]_vars

\* The texts of all requests, in the order they were sent.
RECURSIVE Flatten(_)
Flatten(lists) == IF lists = <<>> THEN <<>> ELSE Head(lists) \o Flatten(Tail(lists))

\* C25: for N staged chunks and batch size b, _embed_documents makes
\* ceil(N / b) embedding calls of at most b texts each, the requests taken
\* together are the texts of the staged chunks, each once and in order, and
\* when it returns every chunk holds the vector computed for its own text.
C25_BatchesComplete ==
  /\ \A r \in 1..Len(requests) : Len(requests[r]) >= 1 /\ Len(requests[r]) <= batch_size
  /\ epc = "done" =>
       /\ Len(requests) * batch_size >= Len(staged_docs)
       /\ (Len(requests) - 1) * batch_size < Len(staged_docs) \/ Len(requests) = 0
       /\ Flatten(requests) = [n \in 1..Len(staged_docs) |-> staged_docs[n].content]
       /\ \A n \in 1..Len(staged_docs) :
            staged_docs[n].embedding = Embedding(staged_docs[n].content)

\* C25 witness: the call returned after several batches, the last one
\* short, over chunks of different texts.
C25_Witness ==
  /\ epc = "done"
  /\ Len(requests) > 1
  /\ Len(requests[Len(requests)]) < batch_size
  /\ \E n \in 1..(Len(staged_docs) - 1) :
       /\ staged_docs[n].content # staged_docs[n + 1].content
       /\ n % batch_size # 0

(***************************************************************************)
(* MRParser, src/auto_reviewer/parsers/mr_parser.py: get_file_language     *)
(* (150-176) and _should_analyze (134-148).  A file path is a string, the  *)
(* sequence of its characters.                                             *)
(***************************************************************************)
\* The characters of the pieces paths and extensions are written with.
Spelling ==
  ("." :> <<".">>) @@ ("/" :> <<"/">>) @@
  [test |-> <<"t", "e", "s", "t">>, py |-> <<"p", "y">>, PY |-> <<"P", "Y">>,
   c |-> <<"c">>, h |-> <<"h">>, H |-> <<"H">>, cpp |-> <<"c", "p", "p">>,
   txt |-> <<"t", "x", "t">>, cc |-> <<"c", "c">>, cxx |-> <<"c", "x", "x">>,
   hpp |-> <<"h", "p", "p">>, java |-> <<"j", "a", "v", "a">>, js |-> <<"j", "s">>,
   ts |-> <<"t", "s">>, go |-> <<"g", "o">>]
\* The string made of the pieces of s, in order.
RECURSIVE Text(_)
Text(s) == IF s = <<>> THEN <<>> ELSE Spelling[Head(s)] \o Text(Tail(s))

Words == {"test", "py", "PY", "c", "h", "H", "cpp", "txt"}

\* The paths asked about: every string of up to MaxNameLen words, dots and
\* slashes, as it is and behind the directory test.py/.
FilePathsOfMR ==
  LET texts == {Text(s) : s \in SeqsUpTo(Words \cup {".", "/"}, MaxNameLen)}
  IN  texts \cup {Text(<<"test", ".", "py", "/">>) \o t : t \in texts}

\* filepath.split('/')
RECURSIVE SplitPath(_)
SplitPath(t) ==
  IF \A i \in 1..Len(t) : t[i] # "/" THEN <<t>>
  ELSE LET i == CHOOSE k \in 1..Len(t) : t[k] = "/" /\ \A e \in 1..(k - 1) : t[e] # "/"
       IN  <<SubSeq(t, 1, i - 1)>> \o SplitPath(SubSeq(t, i + 1, Len(t)))

\* Path(filepath).name: pathlib drops the empty components and the
\* components '.', and the name is the last component left ('' if none is)
NameOf(path) ==
  LET parts == SelectSeq(SplitPath(path), LAMBDA x : x # <<>> /\ x # <<".">>)
  IN  IF parts = <<>> THEN <<>> ELSE parts[Len(parts)]

\* PurePath.suffix: the name from its last dot on, if that dot is neither
\* the first nor the last character of the name
SuffixOf(path) ==
  LET name == NameOf(path)
      dots == {i \in 1..Len(name) : name[i] = "."}
  IN  IF dots = {} THEN <<>>
      ELSE LET i == CHOOSE d \in dots : \A e \in dots : e <= d
           IN  IF 1 < i /\ i < Len(name) THEN SubSeq(name, i, Len(name)) ELSE <<>>

\* str.lower(), on the characters the paths are written with
Lower(t) ==
  [i \in 1..Len(t) |->
     CASE t[i] = "P" -> "p" [] t[i] = "Y" -> "y" [] t[i] = "H" -> "h" [] OTHER -> t[i]]

\* The extension '.' + w
Ext(w) == <<".">> \o Spelling[w]

\* mr_parser.py:52-53
SupportedExtensions ==
  {Ext(w) : w \in {"c", "cpp", "cc", "cxx", "h", "hpp", "py", "java", "js", "ts", "go"}}

\* mr_parser.py:162-174, as the set of <<extension, language>> pairs
LanguageMapMutant ==
  {<<Ext("c"), "c">>, <<Ext("h"), "cpp">>, <<Ext("cpp"), "cpp">>,
   <<Ext("cc"), "cpp">>, <<Ext("cxx"), "cpp">>, <<Ext("hpp"), "cpp">>,
   <<Ext("py"), "python">>, <<Ext("java"), "java">>,
   <<Ext("js"), "javascript">>, <<Ext("ts"), "typescript">>,
   <<Ext("go"), "go">>}
LanguageMap ==
  {<<Ext("c"), "c">>, <<Ext("h"), "c">>, <<Ext("cpp"), "cpp">>,
   <<Ext("cc"), "cpp">>, <<Ext("cxx"), "cpp">>, <<Ext("hpp"), "cpp">>,
   <<Ext("py"), "python">>, <<Ext("java"), "java">>,
   <<Ext("js"), "javascript">>, <<Ext("ts"), "typescript">>,
   <<Ext("go"), "go">>}

\* language_map.get(ext), line 176
MapGet(map, ext) ==
  IF \E e \in map : e[1] = ext THEN (CHOOSE e \in map : e[1] = ext)[2] ELSE "None"

\* get_file_language, lines 160-176
GetFileLanguage ==
  /\ lpc = "new"
  /\ language' = MapGet(LanguageMap, Lower(SuffixOf(filepath)))
  /\ lpc' = "asked"
  /\ UNCHANGED <<filepath, analyze>>
  /\ UNCHANGED <<retrVars, collection, splitVars, indexVars, graphVars, callVars,
                 idVars, embedVars>>

\* _should_analyze, lines 144-148
ShouldAnalyze ==
  /\ lpc = "asked"
  /\ analyze' = (filepath # <<>> /\ SuffixOf(filepath) \in SupportedExtensions)
  /\ lpc' = "done"
  /\ UNCHANGED <<filepath, language>>
  /\ UNCHANGED <<retrVars, collection, splitVars, indexVars, graphVars, callVars,
                 idVars, embedVars>>

LanguageNext == GetFileLanguage \/ ShouldAnalyze

InitLanguage ==
  /\ GraphIdle
  /\ CallIdle
  /\ RetrieverIdle
  /\ collection = <<>>
  /\ ChunkerIdle
  /\ IndexerIdle
  /\ IdIdle
  /\ EmbedIdle
  /\ filepath \in FilePathsOfMR
  /\ language = "unset"
  /\ analyze = FALSE
  /\ lpc = "new"

SpecLanguage == InitLanguage /\ [][LanguageNext]_vars

\* The extension of the file name, upper case taken as lower case.
ExtensionIs(w) == Lower(SuffixOf(filepath)) = Ext(w)

\* C26: get_file_language decides by the extension of the file name alone:
\* .py gives 'python', .cpp 'cpp', .c and .h 'c', an extension that is no
\* key of the language map gives None; and every path _should_analyze
\* accepts has a language.
C26_LanguageByExtension ==
  /\ lpc \in {"asked", "done"} =>
       /\ ExtensionIs("py") => language = "python"
       /\ ExtensionIs("cpp") => language = "cpp"
       /\ (ExtensionIs("c") \/ ExtensionIs("h")) => language = "c"
       /\ (\A w \in {"c", "cpp", "cc", "cxx", "h", "hpp", "py", "java", "js", "ts", "go"} :
             ~ExtensionIs(w)) => language = "None"
  /\ (lpc = "done" /\ analyze) => language # "None"

\* C26 witness: a header file inside the directory test.py was accepted and
\* its language is 'c'.
C26_Witness ==
  /\ lpc = "done"
  /\ analyze
  /\ language = "c"
  /\ Len(filepath) > 8
  /\ SubSeq(filepath, 1, 8) = Text(<<"test", ".", "py", "/">>)
  /\ SuffixOf(filepath) = Ext("h")
====
